---- MODULE Spec2Model ----
(***************************************************************************)
(* Vetro-Quiz backend (FastAPI + SQLite): the quiz scoring handlers, the   *)
(* token gate, account registration / OAuth login and the admin surface,   *)
(* modelled as a state machine over the four stored tables together with   *)
(* the response of the last request.                                       *)
(*                                                                         *)
(* Conventions.  An Optional[...] value is a sequence of length <= 1:      *)
(* None is <<>> and Some(x) is <<x>>.  A percentage is kept in hundredths  *)
(* (66.67 is 6667).  Strings whose characters matter (names, passwords,    *)
(* question texts) are sequences of one-character strings.                 *)
(***************************************************************************)
EXTENDS Integers, Sequences, FiniteSets, TLC

VARIABLES
    questions,   \* table questions: id -> [text, options, correct_option]
    qseq,        \* sqlite AUTOINCREMENT sequence of table questions
    users,       \* table users: id -> account row
    useq,        \* number of uuid4 account ids drawn so far
    attempts,    \* table quiz_attempts: id -> attempt row
    aseq,        \* number of uuid4 attempt ids drawn so far
    now,         \* wall clock (time.time / datetime.utcnow), in ticks
    resp,        \* the response in flight to the client, NoResponse when none is
    inflight,    \* per request slot: where a suspended handler stands, its locals
    rate_limit_storage,  \* security.rate_limit_storage: client address -> timestamps
    admitted     \* log: client address -> times at which call_next was reached

vars == <<questions, qseq, users, useq, attempts, aseq, now, resp, inflight,
          rate_limit_storage, admitted>>

----------------------------------------------------------------------------
(* Bounds of the exploration *)

MaxQuestions == 3
MaxUsers == 3
MaxAttempts == 1
MaxTime == 2

----------------------------------------------------------------------------
(* Optional values and small helpers *)

None == <<>>
Some(x) == <<x>>

Rep(c, n) == [i \in 1..n |-> c]

SetMin(S) == CHOOSE x \in S : \A y \in S : x <= y

Retain(f, k) == f

Drop(f, k) == [x \in DOMAIN f \ {k} |-> f[x]]

----------------------------------------------------------------------------
(* Python's round(x, 2) of the ratio x = num / den, in hundredths: the     *)
(* nearest hundredth, a tie going to the even one.                         *)

\* A rounding that truncates to the hundredth below instead.
Round2Truncated(num, den) == (100 * num) \div den

Round2(num, den) ==
    LET q == (100 * num) \div den
        r == (100 * num) % den
    IN  IF 2 * r > den THEN q + 1
        ELSE IF 2 * r < den THEN q
        ELSE IF q % 2 = 0 THEN q ELSE q + 1

----------------------------------------------------------------------------
(* Account store (database.py)                                              *)

AdminEmail == "admin@quiz.com"

\* SELECT * FROM users WHERE id = ? AND is_active = 1
get_user_by_id(user_id) ==
    IF user_id \in DOMAIN users /\ users[user_id].is_active
    THEN Some(users[user_id])
    ELSE None

\* SELECT * FROM users WHERE email = ? AND is_active = 1
get_user_by_email(email) ==
    LET found == {u \in DOMAIN users : users[u].email = email /\ users[u].is_active}
    IN  IF found # {} THEN Some(users[SetMin(found)]) ELSE None

\* SELECT * FROM users WHERE google_id = ? AND is_active = 1
get_user_by_google_id(google_id) ==
    LET found == {u \in DOMAIN users :
                     users[u].google_id = Some(google_id) /\ users[u].is_active}
    IN  IF found # {} THEN Some(users[SetMin(found)]) ELSE None

\* The users table's UNIQUE constraints (email; google_id when not NULL),
\* as sqlite checks them for a row to be written under id uid.
UniqueOk(uid, email, google_id) ==
    \A u \in DOMAIN users \ {uid} :
        /\ users[u].email # email
        /\ (google_id # None => users[u].google_id # google_id)

\* The row create_user inserts; is_active and is_admin take the schema's
\* defaults (1 and 0).
NewUserRowWithFlag(uid, email, name, hashed_password, google_id) ==
    [id |-> uid, email |-> email, name |-> name,
     hashed_password |-> hashed_password, google_id |-> google_id,
     phone |-> None, address |-> None,
     is_active |-> TRUE, is_admin |-> google_id # None]

NewUserRow(uid, email, name, hashed_password, google_id) ==
    [id |-> uid, email |-> email, name |-> name,
     hashed_password |-> hashed_password, google_id |-> google_id,
     phone |-> None, address |-> None,
     is_active |-> TRUE, is_admin |-> FALSE]

----------------------------------------------------------------------------
(* Tokens and passwords (auth_utils, which is not part of the sources:     *)
(* modelled from the specification, sections 4.2 and 4.3)                  *)

AccessTTL == 1
RefreshTTL == 2

get_password_hash(password) == <<"bcrypt", password>>

verify_password(plain, hashed) ==
    hashed # None /\ hashed[1] = <<"bcrypt", plain>>

generate_tokens(user_id) ==
    [access_token  |-> [sub |-> user_id, typ |-> "access",
                        exp |-> now + AccessTTL, sig |-> "ok"],
     refresh_token |-> [sub |-> user_id, typ |-> "refresh",
                        exp |-> now + RefreshTTL, sig |-> "ok"]]

\* A validation that does not look at the expiry.
verify_token_unexpiring(token, expected_type) ==
    IF token.sig # "ok" THEN [ok |-> FALSE, err |-> "InvalidToken", sub |-> 0]
    ELSE IF token.typ # expected_type
         THEN [ok |-> FALSE, err |-> "WrongTokenType", sub |-> 0]
    ELSE [ok |-> TRUE, err |-> "", sub |-> token.sub]

\* validate(token, expected_type): InvalidToken, ExpiredToken, WrongTokenType,
\* each raised as an HTTPException with status 401.
verify_token(token, expected_type) ==
    IF token.sig # "ok" THEN [ok |-> FALSE, err |-> "InvalidToken", sub |-> 0]
    ELSE IF now >= token.exp THEN [ok |-> FALSE, err |-> "ExpiredToken", sub |-> 0]
    ELSE IF token.typ # expected_type
         THEN [ok |-> FALSE, err |-> "WrongTokenType", sub |-> 0]
    ELSE [ok |-> TRUE, err |-> "", sub |-> token.sub]

\* A bearer string that is no token of this service.
Garbage == [sub |-> 0, typ |-> "access", exp |-> 0, sig |-> "bad"]

\* The tokens this service has signed for an account id: a token is issued
\* for an account when it is created and at each later login or refresh, so
\* for every id drawn so far there are access and refresh tokens that have
\* expired by now and ones that have not.
SignedTokens ==
    [sub : 1..useq, typ : {"access", "refresh"}, exp : {now, now + 1},
     sig : {"ok"}]

\* What a client can put in the Authorization header: nothing, garbage, or a
\* token of this service.
Credentials == {None, Some(Garbage)} \cup {Some(t) : t \in SignedTokens}

----------------------------------------------------------------------------
(* The access gate (auth_dependencies.py)                                   *)

\* A gate that takes a token of either type for an identity.
get_current_user_any_type(credentials) ==
    IF credentials = None THEN None
    ELSE LET payload == verify_token(credentials[1], credentials[1].typ)
         IN  IF ~payload.ok THEN None
             ELSE get_user_by_id(payload.sub)

\* A gate that reads the token's subject without verifying the token.
get_optional_user_unverified(credentials) ==
    IF credentials = None THEN None
    ELSE get_user_by_id(credentials[1].sub)

get_current_user(credentials) ==
    IF credentials = None THEN None
    ELSE LET payload == verify_token(credentials[1], "access")
         IN  IF ~payload.ok THEN None
             ELSE get_user_by_id(payload.sub)

get_current_active_user(credentials) ==
    LET current_user == get_current_user(credentials)
    IN  IF current_user = None
        THEN [status |-> 401, detail |-> "Not authenticated", user |-> None]
        ELSE IF ~current_user[1].is_active
        THEN [status |-> 400, detail |-> "Inactive user", user |-> None]
        ELSE [status |-> 200, detail |-> "", user |-> current_user]

\* An admin gate that stops at the active-account check.
get_current_admin_user_unchecked(credentials) ==
    get_current_active_user(credentials)

get_current_admin_user(credentials) ==
    LET active == get_current_active_user(credentials)
    IN  IF active.status # 200 THEN active
        ELSE IF ~active.user[1].is_admin
        THEN [status |-> 403, detail |-> "Not enough permissions", user |-> None]
        ELSE active

get_optional_user(credentials) == get_current_user(credentials)

----------------------------------------------------------------------------
(* Handler outcomes.  A handler either returns a body (status 200) or      *)
(* raises: an HTTPException with its status, or another exception, which   *)
(* the framework would answer with 500.  `cause` is the status of the      *)
(* exception a catch-all clause wrapped, 0 when there is none.             *)

Ok(body) ==
    [status |-> 200, exc |-> "", detail |-> "", cause |-> 0, body |-> Some(body)]

Raise(status, detail) ==
    [status |-> status, exc |-> "HTTPException", detail |-> detail,
     cause |-> 0, body |-> None]

Throw(exc) ==
    [status |-> 500, exc |-> exc, detail |-> exc, cause |-> 0, body |-> None]

\* try: ... except Exception as e: raise HTTPException(500, f"<detail>: {e}")
\* HTTPException is an Exception, so the clause also catches the handler's own.
ExceptException(r, detail) ==
    IF r.exc = "" THEN r
    ELSE [status |-> 500, exc |-> "HTTPException", detail |-> detail,
          cause |-> r.status, body |-> None]

\* try: ... except HTTPException: raise
\*          except Exception as e: raise HTTPException(500, f"<detail>: {e}")
ExceptHTTPExceptionRaise(r, detail) ==
    IF r.exc = "HTTPException" THEN r ELSE ExceptException(r, detail)

Response(op, credentials, req, r) ==
    [op |-> op, cred |-> credentials, req |-> req, status |-> r.status,
     detail |-> r.detail, cause |-> r.cause, body |-> r.body]

NoResponse ==
    [op |-> "none", cred |-> None, req |-> None, status |-> 0,
     detail |-> "", cause |-> 0, body |-> None]

\* One request is served at a time: a handler runs when no response is in
\* flight and leaves its response for the client.
Idle == resp = NoResponse

\* A handler that is suspended between two of its storage calls: the call
\* it is about to make (pc), its credentials and request, and the local it
\* carries over (the account it looked up or resolved).  A handler is
\* suspended in a slot that holds no request.
MaxInflight == 2
Slots == 1..MaxInflight

NoRequest == [pc |-> "none", cred |-> None, req |-> None, local |-> None]

Suspend(s, pc, credentials, req, local) ==
    /\ inflight' = [inflight EXCEPT ![s] = [pc |-> pc, cred |-> credentials,
                                            req |-> Some(req), local |-> local]]
    /\ UNCHANGED <<rate_limit_storage, admitted>>

\* The suspended handler of slot s runs to its end and answers.
Resume(s, op, r) ==
    /\ Idle
    /\ resp' = Response(op, inflight[s].cred, inflight[s].req[1], r)
    /\ inflight' = [inflight EXCEPT ![s] = NoRequest]
    /\ UNCHANGED <<rate_limit_storage, admitted>>

\* A handler that runs from its first to its last line in one step.
Serve(op, credentials, req, r) ==
    /\ Idle
    /\ resp' = Response(op, credentials, req, r)
    /\ UNCHANGED <<inflight, rate_limit_storage, admitted>>

----------------------------------------------------------------------------
(* Rate limiting (security_middleware.py).  The middleware runs before the *)
(* routed handler; the handler actions below model a request from          *)
(* call_next on and leave the limiter's storage alone.                     *)

rate_limit_window == 60
rate_limit_max_requests == 60

\* if current_time - req_time < self.rate_limit_window
clean_old_requests(requests, current_time) ==
    SelectSeq(requests, LAMBDA req_time : current_time - req_time < rate_limit_window)

limit_exceeded_past(requests) == Len(requests) > rate_limit_max_requests

\* if len(self.rate_limit_storage[client_ip]) >= self.rate_limit_max_requests
limit_exceeded(requests) == Len(requests) >= rate_limit_max_requests

assign(requests, current_time) == <<current_time>>

\* self.rate_limit_storage[client_ip].append(current_time)
append(requests, current_time) == Append(requests, current_time)

\* rate_limit_check: the answer and the storage it leaves.
rate_limit_check(storage, client_ip, current_time) ==
    LET kept == clean_old_requests(storage[client_ip], current_time)
    IN  IF limit_exceeded(kept)
        THEN [admit |-> FALSE, storage |-> [storage EXCEPT ![client_ip] = kept]]
        ELSE [admit |-> TRUE,
              storage |-> [storage EXCEPT ![client_ip] = append(kept, current_time)]]

TooManyRequests == "Too many requests. Please try again later."

JSONResponse(status_code, detail) ==
    [status |-> status_code, exc |-> "", detail |-> detail, cause |-> 0,
     body |-> None]

SecurityHeaders ==
    {"X-Content-Type-Options", "X-Frame-Options", "X-XSS-Protection",
     "Referrer-Policy", "Content-Security-Policy"}

\* What the middleware answers: 429 without call_next, else the handler's
\* response with the security headers added.
security_middleware_result(admit) ==
    IF admit THEN Ok([headers |-> SecurityHeaders])
    ELSE JSONResponse(429, TooManyRequests)

\* One request of client_ip through the middleware and its handler.
security_middleware(client_ip) ==
    LET r == rate_limit_check(rate_limit_storage, client_ip, now)
    IN  /\ Idle
        /\ rate_limit_storage' = r.storage
        /\ admitted' = IF r.admit
                       THEN [admitted EXCEPT ![client_ip] = Append(@, now)]
                       ELSE admitted
        /\ resp' = Response("security_middleware", None, [client |-> client_ip],
                            security_middleware_result(r.admit))
        /\ UNCHANGED <<questions, qseq, users, useq, attempts, aseq, now, inflight>>

\* Several requests in flight.  rate_limit_check has no await in its body
\* (lines 19-34), so the event loop runs it from its first to its last line;
\* a request waits before the check and, admitted, inside call_next.
Arrive(s, client_ip) ==
    /\ inflight[s] = NoRequest
    /\ Suspend(s, "rate_limit_check", None, [client |-> client_ip], None)
    /\ UNCHANGED <<questions, qseq, users, useq, attempts, aseq, now, resp>>

RateLimitCheck(s) ==
    /\ inflight[s].pc = "rate_limit_check"
    /\ LET client_ip == inflight[s].req[1].client
           r == rate_limit_check(rate_limit_storage, client_ip, now)
       IN  /\ rate_limit_storage' = r.storage
           /\ IF r.admit
              THEN /\ admitted' = [admitted EXCEPT ![client_ip] = Append(@, now)]
                   /\ inflight' = [inflight EXCEPT ![s].pc = "call_next",
                                                   ![s].local = Some(now)]
                   /\ UNCHANGED resp
              ELSE /\ Idle
                   /\ resp' = Response("security_middleware", None, inflight[s].req[1],
                                       security_middleware_result(FALSE))
                   /\ inflight' = [inflight EXCEPT ![s] = NoRequest]
                   /\ UNCHANGED admitted
    /\ UNCHANGED <<questions, qseq, users, useq, attempts, aseq, now>>

CallNext(s) ==
    /\ inflight[s].pc = "call_next"
    /\ Resume(s, "security_middleware", security_middleware_result(TRUE))
    /\ UNCHANGED <<questions, qseq, users, useq, attempts, aseq, now>>

\* time.time() at a later request.
Sleep(current_time) ==
    /\ Idle
    /\ current_time > now
    /\ now' = current_time
    /\ UNCHANGED <<questions, qseq, users, useq, attempts, aseq, resp, inflight,
                   rate_limit_storage, admitted>>

----------------------------------------------------------------------------
(* Quiz taking (main.py: get_questions, submit_quiz,                        *)
(* submit_quiz_authenticated)                                               *)

SetMax(S) == CHOOSE x \in S : \A y \in S : y <= x

\* ORDER BY id DESC
RECURSIVE OrderByIdDesc(_)
OrderByIdDesc(ids) ==
    IF ids = {} THEN <<>>
    ELSE <<SetMax(ids)>> \o OrderByIdDesc(ids \ {SetMax(ids)})

\* ORDER BY id
RECURSIVE OrderById(_)
OrderById(ids) ==
    IF ids = {} THEN <<>>
    ELSE <<SetMin(ids)>> \o OrderById(ids \ {SetMin(ids)})

\* SELECT ... FROM <table> ORDER BY id
SelectFrom(table) ==
    LET ids == OrderById(DOMAIN table)
    IN  [i \in 1..Len(ids) |-> table[ids[i]]]

SelectQuestions == SelectFrom(questions)

\* A lookup that answers option 0 for a missing key.
get_or_zero(answers, question_id) ==
    IF question_id \in DOMAIN answers THEN Some(answers[question_id])
    ELSE Some(0)

\* user_answers.answers.get(question_id)
get(answers, question_id) ==
    IF question_id \in DOMAIN answers THEN Some(answers[question_id]) ELSE None

\* user_answer == correct_option if user_answer is not None else False
is_correct(user_answer, correct_option) ==
    IF user_answer # None THEN user_answer[1] = correct_option ELSE FALSE

\* A scoring loop over the submitted entries instead of the stored rows.
ScoreAnswers(rows, answers, results, score) ==
    LET keys == OrderById(DOMAIN answers)
        known(k) == \E i \in 1..Len(rows) : rows[i].id = k
        row(k) == rows[CHOOSE i \in 1..Len(rows) : rows[i].id = k]
        entry(k) ==
            IF known(k)
            THEN [id |-> k, question_text |-> row(k).question_text,
                  options |-> row(k).options,
                  correct_option |-> row(k).correct_option,
                  user_answer |-> Some(answers[k]),
                  is_correct |-> answers[k] = row(k).correct_option]
            ELSE [id |-> k, question_text |-> <<>>, options |-> <<>>,
                  correct_option |-> -1, user_answer |-> Some(answers[k]),
                  is_correct |-> FALSE]
    IN  [results |-> [i \in 1..Len(keys) |-> entry(keys[i])],
         score |-> Cardinality({k \in DOMAIN answers : entry(k).is_correct})]

\* The scoring loop over the rows, carrying results and score.
RECURSIVE ScoreRows(_, _, _, _)
ScoreRows(rows, answers, results, score) ==
    IF rows = <<>> THEN [results |-> results, score |-> score]
    ELSE LET row == Head(rows)
             question_id == row.id
             correct_option == row.correct_option
             user_answer == get(answers, question_id)
             correct == is_correct(user_answer, correct_option)
         IN  ScoreRows(Tail(rows), answers,
                       Append(results,
                              [id |-> question_id,
                               question_text |-> row.question_text,
                               options |-> row.options,
                               correct_option |-> correct_option,
                               user_answer |-> user_answer,
                               is_correct |-> correct]),
                       IF correct THEN score + 1 ELSE score)

\* percentage = (score / total_questions * 100) if total_questions > 0 else 0,
\* kept as the exact ratio num / den (a float before rounding).
Percentage(score, total_questions) ==
    IF total_questions > 0 THEN [num |-> 100 * score, den |-> total_questions]
    ELSE [num |-> 0, den |-> 1]

\* round(percentage, 2), in hundredths
RoundPercentage(percentage) == Round2(percentage.num, percentage.den)

\* A list that carries the whole row of each question.
QuestionListWithKey(rows) ==
    [i \in 1..Len(rows) |->
        [id |-> rows[i].id, question_text |-> rows[i].question_text,
         options |-> rows[i].options,
         correct_option |-> rows[i].correct_option]]

\* The loop of get_questions: Question(id, question_text, options) per row.
QuestionList(rows) ==
    [i \in 1..Len(rows) |->
        [id |-> rows[i].id, question_text |-> rows[i].question_text,
         options |-> rows[i].options]]

get_questions_result ==
    LET rows == SelectQuestions
    IN  ExceptException(Ok([questions |-> QuestionList(rows)]),
                        "Error fetching questions")

submit_quiz_result(answers) ==
    LET rows == SelectQuestions
        inner ==
            IF rows = <<>> THEN Raise(404, "No questions found")
            ELSE LET scored == ScoreRows(rows, answers, <<>>, 0)
                     total_questions == Len(scored.results)
                     percentage == Percentage(scored.score, total_questions)
                 IN  Ok([score |-> scored.score,
                         total_questions |-> total_questions,
                         percentage |-> RoundPercentage(percentage),
                         results |-> scored.results])
    IN  ExceptException(inner, "Error processing quiz submission")

\* save_quiz_attempt with the account reference left null.
save_quiz_attempt_anonymous(user_id, score, total_questions, percentage) ==
    [id |-> aseq + 1, user_id |-> 0, score |-> score,
     total_questions |-> total_questions, percentage |-> percentage]

\* database.save_quiz_attempt: the row it inserts, under a fresh id.
save_quiz_attempt(user_id, score, total_questions, percentage) ==
    [id |-> aseq + 1, user_id |-> user_id, score |-> score,
     total_questions |-> total_questions, percentage |-> percentage]

\* The part of submit_quiz_authenticated before and after the save: the
\* attempt row it saves (when there is an identity) and its outcome.
submit_quiz_authenticated_result(answers, current_user) ==
    LET rows == SelectQuestions
        inner ==
            IF rows = <<>>
            THEN [r |-> Raise(404, "No questions found"), save |-> None]
            ELSE LET scored == ScoreRows(rows, answers, <<>>, 0)
                     total_questions == Len(scored.results)
                     percentage == Percentage(scored.score, total_questions)
                     attempt_id == IF current_user # None THEN Some(aseq + 1)
                                   ELSE None
                 IN  [r |-> Ok([score |-> scored.score,
                                total_questions |-> total_questions,
                                percentage |-> RoundPercentage(percentage),
                                results |-> scored.results,
                                attempt_id |-> attempt_id,
                                user_id |-> IF current_user # None
                                            THEN Some(current_user[1].id)
                                            ELSE None]),
                      save |-> IF current_user # None
                               THEN Some(save_quiz_attempt(
                                             current_user[1].id, scored.score,
                                             total_questions, percentage))
                               ELSE None]
    IN  [r |-> ExceptException(inner.r, "Error processing quiz submission"),
         save |-> inner.save]

----------------------------------------------------------------------------
(* Input validation (security_middleware.py, input_validation.py)           *)

Whitespace == {" "}
Dangerous == {"<", ">", "\"", "'", "%", ";", "(", ")", "&", "+"}

RECURSIVE lstrip(_)
lstrip(text) ==
    IF text # <<>> /\ Head(text) \in Whitespace THEN lstrip(Tail(text)) ELSE text

RECURSIVE rstrip(_)
rstrip(text) ==
    IF text # <<>> /\ text[Len(text)] \in Whitespace
    THEN rstrip(SubSeq(text, 1, Len(text) - 1)) ELSE text

strip(text) == rstrip(lstrip(text))

IsSafeChar(c) == c \notin Dangerous

\* re.sub(r'[<>\"\'%;()&+]', '', text)[:max_length].strip()
sanitize_string(text, max_length) ==
    IF text = <<>> THEN <<>>
    ELSE LET sanitized == SelectSeq(text, IsSafeChar)
         IN  strip(SubSeq(sanitized, 1,
                          IF Len(sanitized) < max_length THEN Len(sanitized)
                          ELSE max_length))

MinPasswordLen == 6
MaxPasswordLen == 72
MaxNameLen == 100
MinQuestionLen == 5
MaxQuestionLen == 1000
MinOptions == 2
MaxOptions == 6
MaxOptionLen == 200

\* SecurityMiddleware.validate_password
validate_password(password) == Len(password) >= MinPasswordLen

\* SecureUserCreate: the validators of name and password.  The result is
\* the validated data, or None when a validator raises ValueError.
SecureUserCreate(data) ==
    LET name_ok == /\ ~(data.name = <<>> \/ Len(strip(data.name)) < 1)
                   /\ ~(Len(data.name) > MaxNameLen)
        password_ok ==
            data.password # None =>
                /\ validate_password(data.password[1])
                /\ ~(Len(data.password[1]) > MaxPasswordLen)
    IN  IF name_ok /\ password_ok
        THEN Some([data EXCEPT !.name = sanitize_string(data.name, MaxNameLen)])
        ELSE None

\* SecureUserLogin: the validator of password.
SecureUserLogin(data) ==
    IF data.password = <<>> \/ Len(strip(data.password)) < 1 THEN None
    ELSE IF Len(data.password) > MaxPasswordLen THEN None
    ELSE Some(data)

\* SecureQuestionCreate: the validators of question_text, options and
\* correct_option (which reads the validated options).
SecureQuestionCreate(data) ==
    LET text_ok ==
            /\ ~(data.question_text = <<>>
                 \/ Len(strip(data.question_text)) < MinQuestionLen)
            /\ ~(Len(data.question_text) > MaxQuestionLen)
        options_ok ==
            /\ ~(data.options = <<>> \/ Len(data.options) < MinOptions)
            /\ ~(Len(data.options) > MaxOptions)
            /\ \A i \in 1..Len(data.options) :
                   ~(Len(data.options[i]) > MaxOptionLen)
        sanitized_options ==
            [i \in 1..Len(data.options) |->
                sanitize_string(data.options[i], MaxOptionLen)]
        correct_ok ==
            (options_ok /\ sanitized_options # <<>>) =>
                ~(data.correct_option < 0
                  \/ data.correct_option >= Len(sanitized_options))
    IN  IF text_ok /\ options_ok /\ correct_ok
        THEN Some([question_text |->
                       sanitize_string(data.question_text, MaxQuestionLen),
                   options |-> sanitized_options,
                   correct_option |-> data.correct_option])
        ELSE None

\* validate_user_input: the validated data, or HTTPException 422.
validate_user_input(validated) ==
    IF validated = None THEN Raise(422, "Validation error") ELSE Ok(validated[1])

----------------------------------------------------------------------------
(* Initial state: the database as init_database leaves it (the default     *)
(* admin account), with the questions table emptied (clear_questions.py,   *)
(* the fixtures of test_api.py).                                           *)

DefaultAdminEmail == "imranance99@gmail.com"
DefaultAdminName == <<"A", "d", "m", "i", "n">>
DefaultAdminPassword == <<"a", "d", "m", "i", "n", "1", "2", "3">>

\* request.client.host of the clients that call
Clients == {"a", "b"}

DefaultAdminRow ==
    [id |-> 1, email |-> DefaultAdminEmail, name |-> DefaultAdminName,
     hashed_password |-> Some(get_password_hash(DefaultAdminPassword)),
     google_id |-> None, phone |-> None, address |-> None,
     is_active |-> TRUE, is_admin |-> TRUE]

Init ==
    /\ questions = <<>>
    /\ qseq = 0
    /\ users = (1 :> DefaultAdminRow)
    /\ useq = 1
    /\ attempts = <<>>
    /\ aseq = 0
    /\ now = 0
    /\ resp = NoResponse
    /\ inflight = [s \in Slots |-> NoRequest]
    /\ rate_limit_storage = [client_ip \in Clients |-> <<>>]
    /\ admitted = [client_ip \in Clients |-> <<>>]

----------------------------------------------------------------------------
(* Request bodies the clients send *)

\* Answer maps: any subset of the question ids that can exist, each with an
\* option that is in range, negative or too large, and possibly an entry for
\* an id that is never a question's.
UnknownQuestionId == MaxQuestions + 1
AnswerOptions == {-1, 0, 1, 2}
AnswerMaps ==
    LET known == UNION {[ids -> AnswerOptions] : ids \in SUBSET (1..MaxQuestions)}
    IN  known \cup {f @@ (UnknownQuestionId :> 0) : f \in known}

OptionText == <<"o">>
QuestionBodies ==
    [question_text : {Rep("q", MinQuestionLen - 1), Rep("q", MinQuestionLen)},
     options : {Rep(OptionText, MinOptions - 1), Rep(OptionText, MinOptions),
                Rep(OptionText, MaxOptions + 1),
                <<OptionText, Rep("o", MaxOptionLen + 1)>>},
     correct_option : {-1, 0, 1, 2}]

----------------------------------------------------------------------------
(* Quiz taking: the actions *)

GetQuestions ==
    /\ Serve("get_questions", None, None, get_questions_result)
    /\ UNCHANGED <<questions, qseq, users, useq, attempts, aseq, now>>

SubmitQuiz(answers) ==
    /\ Serve("submit", None, [answers |-> answers],
                        submit_quiz_result(answers))
    /\ UNCHANGED <<questions, qseq, users, useq, attempts, aseq, now>>

SubmitQuizAuthenticated(credentials, answers) ==
    LET current_user == get_optional_user(credentials)
        out == submit_quiz_authenticated_result(answers, current_user)
    IN  /\ (out.save # None => aseq < MaxAttempts)
        /\ Serve("submit_authenticated", credentials,
                            [answers |-> answers], out.r)
        /\ IF out.save # None
           THEN /\ attempts' = attempts @@ (out.save[1].id :> out.save[1])
                /\ aseq' = aseq + 1
           ELSE UNCHANGED <<attempts, aseq>>
        /\ UNCHANGED <<questions, qseq, users, useq, now>>

----------------------------------------------------------------------------
(* Admin: questions (main.py)                                               *)

\* A dependency that raises ends the request before the handler runs.
Gated(gate, r) == IF gate.status # 200 THEN Raise(gate.status, gate.detail) ELSE r

create_question_result(credentials, question_data) ==
    LET validated == validate_user_input(SecureQuestionCreate(question_data))
        inner == IF validated.status # 200 THEN validated
                 ELSE Ok([question_id |-> qseq + 1,
                          row |-> [id |-> qseq + 1,
                                   question_text |-> validated.body[1].question_text,
                                   options |-> validated.body[1].options,
                                   correct_option |-> validated.body[1].correct_option]])
    IN  Gated(get_current_admin_user(credentials),
              ExceptException(inner, "Failed to create question"))

CreateQuestion(credentials, question_data) ==
    LET r == create_question_result(credentials, question_data)
    IN  /\ (r.status = 200 => qseq < MaxQuestions)
        /\ Serve("create_question", credentials, question_data, r)
        /\ IF r.status = 200
           THEN /\ questions' = questions @@ (r.body[1].question_id :> r.body[1].row)
                /\ qseq' = qseq + 1
           ELSE UNCHANGED <<questions, qseq>>
        /\ UNCHANGED <<users, useq, attempts, aseq, now>>

delete_question_result(credentials, question_id) ==
    LET inner == IF question_id \notin DOMAIN questions
                 THEN Raise(404, "Question not found")
                 ELSE Ok([message |-> "Question deleted successfully"])
    IN  Gated(get_current_admin_user(credentials),
              ExceptHTTPExceptionRaise(inner, "Failed to delete question"))

DeleteQuestion(credentials, question_id) ==
    LET r == delete_question_result(credentials, question_id)
    IN  /\ Serve("delete_question", credentials,
                            [question_id |-> question_id], r)
        /\ questions' = IF r.status = 200 THEN Drop(questions, question_id)
                        ELSE questions
        /\ UNCHANGED <<qseq, users, useq, attempts, aseq, now>>

get_all_questions_admin_result(credentials) ==
    Gated(get_current_admin_user(credentials),
          Ok([questions |-> SelectQuestions]))

GetAllQuestionsAdmin(credentials) ==
    /\ Serve("admin_questions", credentials, None,
                        get_all_questions_admin_result(credentials))
    /\ UNCHANGED <<questions, qseq, users, useq, attempts, aseq, now>>

----------------------------------------------------------------------------
(* Accounts: register, login, refresh, me, logout (main.py)                 *)

UserEmail == "user@quiz.com"
Emails == {DefaultAdminEmail, AdminEmail, UserEmail}
GoogleIds == {"g1", "g2"}
UserPassword == Rep("p", MinPasswordLen)

RegisterBodies ==
    [email : Emails,
     name : {<<>>, <<"A", "<">>, Rep("n", MaxNameLen + 1)},
     password : {None, Some(Rep("p", MinPasswordLen - 1)), Some(UserPassword),
                 Some(Rep("p", MaxPasswordLen + 1))},
     google_id : {None, Some("g1")}]

LoginBodies ==
    [email : Emails,
     password : {<<>>, DefaultAdminPassword, UserPassword,
                 Rep("p", MaxPasswordLen + 1)}]

\* Token(access_token, refresh_token, ..., user=User(**user_dict))
TokenResponse(user) ==
    LET tokens == generate_tokens(user.id)
    IN  Ok([access_token |-> tokens.access_token,
            refresh_token |-> tokens.refresh_token,
            user |-> user])

\* The outcome of register_user and the row it inserts (None when none).
register_user_result(user_data) ==
    LET validated == validate_user_input(SecureUserCreate(user_data))
        data == validated.body[1]
        user_id == useq + 1
        hashed_password ==
            IF data.password # None /\ data.password[1] # <<>>
            THEN Some(get_password_hash(data.password[1])) ELSE None
        row == NewUserRow(user_id, data.email, data.name, hashed_password,
                          data.google_id)
        inner ==
            IF validated.exc # "" THEN [r |-> validated, insert |-> None]
            ELSE IF get_user_by_email(data.email) # None
            THEN [r |-> Raise(400, "Email already registered"), insert |-> None]
            ELSE IF ~UniqueOk(user_id, data.email, data.google_id)
            THEN [r |-> Throw("IntegrityError"), insert |-> None]
            ELSE [r |-> TokenResponse(row), insert |-> Some(row)]
    IN  [r |-> ExceptException(inner.r, "Registration failed"),
         insert |-> inner.insert]

RegisterUser(user_data) ==
    LET out == register_user_result(user_data)
    IN  /\ (out.insert # None => useq < MaxUsers)
        /\ Serve("register", None, user_data, out.r)
        /\ IF out.insert # None
           THEN /\ users' = users @@ (out.insert[1].id :> out.insert[1])
                /\ useq' = useq + 1
           ELSE UNCHANGED <<users, useq>>
        /\ UNCHANGED <<questions, qseq, attempts, aseq, now>>

login_user_result(login_data) ==
    LET validated == validate_user_input(SecureUserLogin(login_data))
        user == get_user_by_email(login_data.email)
        inner ==
            IF validated.exc # "" THEN validated
            ELSE IF user = None THEN Raise(401, "Invalid email or password")
            ELSE IF user[1].hashed_password = None
                    \/ ~verify_password(login_data.password, user[1].hashed_password)
            THEN Raise(401, "Invalid email or password")
            ELSE TokenResponse(user[1])
    IN  ExceptHTTPExceptionRaise(inner, "Login failed")

LoginUser(login_data) ==
    /\ Serve("login", None, login_data, login_user_result(login_data))
    /\ UNCHANGED <<questions, qseq, users, useq, attempts, aseq, now>>

refresh_access_token_result(refresh_token) ==
    LET payload == verify_token(refresh_token, "refresh")
        user == get_user_by_id(payload.sub)
        inner ==
            IF ~payload.ok THEN Raise(401, payload.err)
            ELSE IF user = None THEN Raise(401, "User not found")
            ELSE TokenResponse(user[1])
    IN  ExceptHTTPExceptionRaise(inner, "Token refresh failed")

RefreshAccessToken(refresh_token) ==
    /\ Serve("refresh", None, [refresh_token |-> refresh_token],
             refresh_access_token_result(refresh_token))
    /\ UNCHANGED <<questions, qseq, users, useq, attempts, aseq, now>>

get_current_user_info_result(credentials) ==
    LET gate == get_current_active_user(credentials)
    IN  Gated(gate, Ok([user |-> gate.user[1]]))

GetCurrentUserInfo(credentials) ==
    /\ Serve("me", credentials, None, get_current_user_info_result(credentials))
    /\ UNCHANGED <<questions, qseq, users, useq, attempts, aseq, now>>

logout_user_result(credentials) ==
    Gated(get_current_active_user(credentials),
          Ok([message |-> "Successfully logged out"]))

LogoutUser(credentials) ==
    /\ Serve("logout", credentials, None, logout_user_result(credentials))
    /\ UNCHANGED <<questions, qseq, users, useq, attempts, aseq, now>>

\* The bodies of PUT /api/auth/profile: a JSON object with any keys, here
\* the three the handler allows and two it does not; None is a key that is
\* absent or null.
ProfileName == <<"B">>
ProfilePhone == <<"5">>
ProfileBodies ==
    [name : {None, Some(ProfileName)}, phone : {None, Some(ProfilePhone)},
     address : {None}, email : {None, Some(AdminEmail)},
     is_admin : {None, Some(TRUE)}]

\* A profile update that writes every key of the body.
update_user_profile_row_any_field(row, profile_data) ==
    [row EXCEPT
       !.name = IF profile_data.name # None THEN profile_data.name[1] ELSE @,
       !.phone = profile_data.phone,
       !.address = profile_data.address,
       !.email = IF profile_data.email # None THEN profile_data.email[1] ELSE @,
       !.is_admin = IF profile_data.is_admin # None
                    THEN profile_data.is_admin[1] ELSE @]

\* UPDATE users SET <the allowed keys that are not null> WHERE id = ?
update_user_profile_row(row, profile_data) ==
    [row EXCEPT
       !.name = IF profile_data.name # None THEN profile_data.name[1] ELSE @,
       !.phone = IF profile_data.phone # None THEN profile_data.phone ELSE @,
       !.address = IF profile_data.address # None
                   THEN profile_data.address ELSE @]

update_user_profile_result(credentials, profile_data) ==
    LET gate == get_current_active_user(credentials)
        inner ==
            IF profile_data.name = None /\ profile_data.phone = None
               /\ profile_data.address = None
            THEN Raise(400, "No valid fields to update")
            ELSE Ok([user |-> update_user_profile_row(gate.user[1],
                                                      profile_data)])
    IN  Gated(gate, ExceptHTTPExceptionRaise(inner, "Profile update failed"))

UpdateUserProfile(credentials, profile_data) ==
    LET r == update_user_profile_result(credentials, profile_data)
    IN  /\ Serve("update_profile", credentials, profile_data, r)
        /\ users' = IF r.status = 200
                    THEN [users EXCEPT ![r.body[1].user.id] = r.body[1].user]
                    ELSE users
        /\ UNCHANGED <<questions, qseq, useq, attempts, aseq, now>>

----------------------------------------------------------------------------
(* OAuth login (google_auth.py, database.py, main.py)                       *)

GOOGLE_CLIENT_ID == "client-id"
GoogleName == <<"G">>

\* What Google's tokeninfo endpoint answers for the id token a client sends:
\* whether the endpoint is reachable, answers 200 and with JSON, and the
\* claims aud, exp, email_verified, sub, email, name.
GoodGoogleTokens ==
    [reachable : {TRUE}, status_ok : {TRUE}, json_ok : {TRUE},
     aud : {GOOGLE_CLIENT_ID}, exp : {now + 1}, email_verified : {TRUE},
     sub : GoogleIds, email : Emails, name : {GoogleName}]

BadGoogleTokens ==
    ([reachable : BOOLEAN, status_ok : {TRUE}, json_ok : {TRUE},
      aud : {GOOGLE_CLIENT_ID, "other-client"}, exp : {now - 1, now + 1},
      email_verified : BOOLEAN,
      sub : {"g1"}, email : {UserEmail}, name : {GoogleName}]
     \cup
     [reachable : {TRUE}, status_ok : BOOLEAN, json_ok : BOOLEAN,
      aud : {GOOGLE_CLIENT_ID}, exp : {now + 1}, email_verified : {TRUE},
      sub : {"g1"}, email : {UserEmail}, name : {GoogleName}])
    \ GoodGoogleTokens

GoogleTokens == GoodGoogleTokens \cup BadGoogleTokens

\* GoogleAuth.verify_google_token: the checks inside the try block ...
verify_google_token_checks(token) ==
    IF ~token.reachable THEN Throw("ConnectionError")
    ELSE IF ~token.status_ok THEN Raise(401, "Invalid Google token")
    ELSE IF ~token.json_ok THEN Throw("ValueError")
    ELSE IF token.aud # GOOGLE_CLIENT_ID THEN Raise(401, "Invalid audience")
    ELSE IF token.exp < now THEN Raise(401, "Token expired")
    ELSE IF ~token.email_verified THEN Raise(400, "Google email not verified")
    ELSE Ok([google_id |-> token.sub, email |-> token.email,
             name |-> token.name])

\* ... and its except clauses: ValueError gives 401, any other Exception
\* (HTTPException among them) gives 500.
verify_google_token(token) ==
    LET r == verify_google_token_checks(token)
    IN  IF r.exc = "ValueError" THEN Raise(401, "Invalid Google token")
        ELSE ExceptException(r, "Google authentication failed")

\* create_or_get_google_user: its outcome and the users table after it.
create_or_get_google_user(google_info) ==
    LET by_google_id == get_user_by_google_id(google_info.google_id)
        by_email == get_user_by_email(google_info.email)
        new_id == useq + 1
    IN  IF by_google_id # None
        THEN [r |-> Ok(by_google_id[1].id), table |-> users, created |-> FALSE]
        ELSE IF by_email # None
        THEN \* update_user_google_id
             IF UniqueOk(by_email[1].id, by_email[1].email,
                         Some(google_info.google_id))
             THEN [r |-> Ok(by_email[1].id),
                   table |-> [users EXCEPT ![by_email[1].id].google_id =
                                               Some(google_info.google_id)],
                   created |-> FALSE]
             ELSE [r |-> Throw("IntegrityError"), table |-> users,
                   created |-> FALSE]
        ELSE \* create_user
             IF UniqueOk(new_id, google_info.email, Some(google_info.google_id))
             THEN [r |-> Ok(new_id),
                   table |-> users @@
                       (new_id :> NewUserRow(new_id, google_info.email,
                                             google_info.name, None,
                                             Some(google_info.google_id))),
                   created |-> TRUE]
             ELSE [r |-> Throw("IntegrityError"), table |-> users,
                   created |-> FALSE]

google_auth_result(token) ==
    LET google_info == verify_google_token(token)
        got == create_or_get_google_user(google_info.body[1])
        inner ==
            IF google_info.exc # ""
            THEN [r |-> google_info, table |-> users, created |-> FALSE]
            ELSE IF got.r.exc # "" THEN got
            ELSE IF ~(got.r.body[1] \in DOMAIN got.table
                      /\ got.table[got.r.body[1]].is_active)
            THEN [r |-> Raise(500, "Failed to create or retrieve user"),
                  table |-> got.table, created |-> got.created]
            ELSE [r |-> TokenResponse(got.table[got.r.body[1]]),
                  table |-> got.table, created |-> got.created]
    IN  [r |-> ExceptHTTPExceptionRaise(inner.r, "Google authentication failed"),
         table |-> inner.table, created |-> inner.created]

GoogleAuth(token) ==
    LET out == google_auth_result(token)
    IN  /\ (out.created => useq < MaxUsers)
        /\ Serve("google", None, token, out.r)
        /\ users' = out.table
        /\ useq' = IF out.created THEN useq + 1 ELSE useq
        /\ UNCHANGED <<questions, qseq, attempts, aseq, now>>

----------------------------------------------------------------------------
(* Admin login with the built-in credentials (main.py)                      *)

DEFAULT_ADMIN_USERNAME == "admin"
DEFAULT_ADMIN_PASSWORD == DefaultAdminPassword
AdministratorName == <<"A">>

AdminLoginBodies ==
    [username : {DEFAULT_ADMIN_USERNAME},
     password : {DEFAULT_ADMIN_PASSWORD, UserPassword}]

admin_login_result(credentials) ==
    LET existing == get_user_by_email(AdminEmail)
        admin_id == useq + 1
        row == [NewUserRow(admin_id, AdminEmail, AdministratorName,
                           Some(get_password_hash(DEFAULT_ADMIN_PASSWORD)), None)
                EXCEPT !.is_admin = TRUE]
        inner ==
            IF credentials.username # DEFAULT_ADMIN_USERNAME
               \/ credentials.password # DEFAULT_ADMIN_PASSWORD
            THEN [r |-> Raise(401, "Invalid credentials"), insert |-> None]
            ELSE IF existing # None
            THEN [r |-> TokenResponse(existing[1]), insert |-> None]
            ELSE IF ~UniqueOk(admin_id, AdminEmail, None)
            THEN [r |-> Throw("IntegrityError"), insert |-> None]
            ELSE [r |-> TokenResponse(row), insert |-> Some(row)]
    IN  [r |-> ExceptHTTPExceptionRaise(inner.r, "Admin login failed"),
         insert |-> inner.insert]

AdminLogin(credentials) ==
    LET out == admin_login_result(credentials)
    IN  /\ (out.insert # None => useq < MaxUsers)
        /\ Serve("admin_login", None, credentials, out.r)
        /\ IF out.insert # None
           THEN /\ users' = users @@ (out.insert[1].id :> out.insert[1])
                /\ useq' = useq + 1
           ELSE UNCHANGED <<users, useq>>
        /\ UNCHANGED <<questions, qseq, attempts, aseq, now>>

----------------------------------------------------------------------------
(* Admin: questions, continued (main.py, pdf_parser.py)                     *)

QuestionUpdates ==
    [question_text : {None},
     options : {None, Some(Rep(OptionText, 1)), Some(Rep(OptionText, 3))},
     correct_option : {None, Some(0), Some(2)}]

update_question_result(credentials, question_id, question_data) ==
    LET existing == questions[question_id]
        row == [existing EXCEPT
                  !.question_text = IF question_data.question_text # None
                                    THEN question_data.question_text[1] ELSE @,
                  !.options = IF question_data.options # None
                              THEN question_data.options[1] ELSE @,
                  !.correct_option = IF question_data.correct_option # None
                                     THEN question_data.correct_option[1] ELSE @]
        inner ==
            IF question_id \notin DOMAIN questions
            THEN Raise(404, "Question not found")
            ELSE IF question_data.question_text = None
                    /\ question_data.options = None
                    /\ question_data.correct_option = None
            THEN Raise(400, "No fields to update")
            ELSE Ok([message |-> "Question updated successfully", row |-> row])
    IN  Gated(get_current_admin_user(credentials),
              ExceptHTTPExceptionRaise(inner, "Failed to update question"))

UpdateQuestion(credentials, question_id, question_data) ==
    LET r == update_question_result(credentials, question_id, question_data)
    IN  /\ Serve("update_question", credentials,
                 [question_id |-> question_id, data |-> question_data], r)
        /\ questions' = IF r.status = 200
                        THEN [questions EXCEPT ![question_id] = r.body[1].row]
                        ELSE questions
        /\ UNCHANGED <<qseq, users, useq, attempts, aseq, now>>

\* A block of the PDF's text between two "Q<n>." marks, as the parser's
\* regular expressions see it: whether the question text matches, how many
\* of the options A) to D) match, and the letter after "Answer:" if any.
MaxPdfBlocks == 1
PdfBlocks ==
    [question_match : BOOLEAN, n_options : {1, 2, 4},
     answer : {None, Some(0), Some(3)}]
PdfFiles == UNION {[1..n -> PdfBlocks] : n \in 0..MaxPdfBlocks}
PdfText == <<"t", "e", "x", "t">>
PdfOptionsWanted == 4

\* parse_quiz_pdf_from_bytes: the loop over the blocks.
RECURSIVE parse_quiz_pdf_from_bytes(_)
parse_quiz_pdf_from_bytes(blocks) ==
    IF blocks = <<>> THEN <<>>
    ELSE LET block == Head(blocks)
             rest == parse_quiz_pdf_from_bytes(Tail(blocks))
             options == [i \in 1..PdfOptionsWanted |->
                            IF i <= block.n_options THEN OptionText ELSE <<>>]
         IN  IF ~block.question_match THEN rest
             ELSE IF block.answer = None THEN rest
             ELSE IF block.n_options >= MinOptions
             THEN <<[question_text |-> PdfText, options |-> options,
                     correct_option |-> block.answer[1]]>> \o rest
             ELSE rest

upload_questions_pdf_result(credentials, file) ==
    LET parsed == parse_quiz_pdf_from_bytes(file)
        inner ==
            IF parsed = <<>> THEN Raise(400, "No questions found in PDF")
            ELSE Ok([count |-> Len(parsed),
                     rows |-> [i \in 1..Len(parsed) |->
                                  [id |-> qseq + i,
                                   question_text |-> parsed[i].question_text,
                                   options |-> parsed[i].options,
                                   correct_option |-> parsed[i].correct_option]]])
    IN  Gated(get_current_admin_user(credentials),
              ExceptHTTPExceptionRaise(inner, "Failed to upload PDF"))

UploadQuestionsPdf(credentials, file) ==
    LET r == upload_questions_pdf_result(credentials, file)
    IN  /\ (r.status = 200 => qseq + r.body[1].count <= MaxQuestions)
        /\ Serve("upload_pdf", credentials, file, r)
        /\ IF r.status = 200
           THEN /\ questions' =
                       [q \in DOMAIN questions \cup
                              {qseq + i : i \in 1..r.body[1].count} |->
                           IF q \in DOMAIN questions THEN questions[q]
                           ELSE r.body[1].rows[q - qseq]]
                /\ qseq' = qseq + r.body[1].count
           ELSE UNCHANGED <<questions, qseq>>
        /\ UNCHANGED <<users, useq, attempts, aseq, now>>

----------------------------------------------------------------------------
(* Admin: users and statistics (main.py)                                    *)

RECURSIVE SumPercentage(_)
SumPercentage(rows) ==
    IF rows = {} THEN [num |-> 0, den |-> 1]
    ELSE LET a == CHOOSE x \in rows : TRUE
             rest == SumPercentage(rows \ {a})
         IN  [num |-> rest.num * a.percentage.den + a.percentage.num * rest.den,
              den |-> rest.den * a.percentage.den]

\* round(AVG(percentage), 2) over a set of attempt rows, 0 when there is none
AverageScore(rows) ==
    IF rows = {} THEN 0
    ELSE LET total == SumPercentage(rows)
         IN  Round2(total.num, total.den * Cardinality(rows))

AttemptRows == {attempts[a] : a \in DOMAIN attempts}
AttemptsOf(user_id) == {a \in AttemptRows : a.user_id = user_id}

get_admin_stats_result(credentials) ==
    Gated(get_current_admin_user(credentials),
          Ok([total_users |->
                  Cardinality({u \in DOMAIN users : ~users[u].is_admin}),
              total_questions |-> Cardinality(DOMAIN questions),
              total_attempts |-> Cardinality(DOMAIN attempts),
              average_score |-> AverageScore(AttemptRows)]))

GetAdminStats(credentials) ==
    /\ Serve("admin_stats", credentials, None, get_admin_stats_result(credentials))
    /\ UNCHANGED <<questions, qseq, users, useq, attempts, aseq, now>>

get_all_users_result(credentials) ==
    Gated(get_current_admin_user(credentials),
          Ok([users |-> {[id |-> u, email |-> users[u].email,
                          full_name |-> users[u].name,
                          is_active |-> users[u].is_active,
                          total_attempts |-> Cardinality(AttemptsOf(u)),
                          average_score |-> AverageScore(AttemptsOf(u))] :
                         u \in {x \in DOMAIN users : ~users[x].is_admin}}]))

GetAllUsers(credentials) ==
    /\ Serve("admin_users", credentials, None, get_all_users_result(credentials))
    /\ UNCHANGED <<questions, qseq, users, useq, attempts, aseq, now>>

get_user_details_result(credentials, user_id) ==
    LET inner ==
            IF user_id \notin DOMAIN users THEN Raise(404, "User not found")
            ELSE Ok([user |-> [id |-> user_id, email |-> users[user_id].email,
                               full_name |-> users[user_id].name,
                               is_active |-> users[user_id].is_active],
                     quiz_history |-> AttemptsOf(user_id)])
    IN  Gated(get_current_admin_user(credentials),
              ExceptHTTPExceptionRaise(inner, "Failed to get user details"))

GetUserDetails(credentials, user_id) ==
    /\ Serve("admin_user_details", credentials, [user_id |-> user_id],
             get_user_details_result(credentials, user_id))
    /\ UNCHANGED <<questions, qseq, users, useq, attempts, aseq, now>>

UserUpdates ==
    [email : {None, Some(UserEmail), Some(DefaultAdminEmail)},
     password : {None, Some(UserPassword)},
     name : {None}]

update_user_result(credentials, user_id, user_data) ==
    LET existing == users[user_id]
        row == [existing EXCEPT
                  !.email = IF user_data.email # None
                            THEN user_data.email[1] ELSE @,
                  !.hashed_password =
                      IF user_data.password # None
                      THEN Some(get_password_hash(user_data.password[1])) ELSE @,
                  !.name = IF user_data.name # None
                           THEN user_data.name[1] ELSE @]
        inner ==
            IF user_id \notin DOMAIN users THEN Raise(404, "User not found")
            ELSE IF user_data.email # None
                    /\ \E u \in DOMAIN users \ {user_id} :
                           users[u].email = user_data.email[1]
            THEN Raise(400, "Email already in use")
            ELSE IF user_data.email = None /\ user_data.password = None
                    /\ user_data.name = None
            THEN Raise(400, "No fields to update")
            ELSE Ok([message |-> "User updated successfully", row |-> row])
    IN  Gated(get_current_admin_user(credentials),
              ExceptHTTPExceptionRaise(inner, "Failed to update user"))

UpdateUser(credentials, user_id, user_data) ==
    LET r == update_user_result(credentials, user_id, user_data)
    IN  /\ Serve("update_user", credentials,
                 [user_id |-> user_id, data |-> user_data], r)
        /\ users' = IF r.status = 200
                    THEN [users EXCEPT ![user_id] = r.body[1].row]
                    ELSE users
        /\ UNCHANGED <<questions, qseq, useq, attempts, aseq, now>>

delete_user_result(credentials, user_id) ==
    LET inner == IF user_id \notin DOMAIN users
                 THEN Raise(404, "User not found")
                 ELSE Ok([message |-> "User deleted successfully"])
    IN  Gated(get_current_admin_user(credentials),
              ExceptHTTPExceptionRaise(inner, "Failed to delete user"))

\* DELETE FROM quiz_attempts WHERE user_id = ?; DELETE FROM users WHERE id = ?
DeleteUser(credentials, user_id) ==
    LET r == delete_user_result(credentials, user_id)
    IN  /\ Serve("delete_user", credentials, [user_id |-> user_id], r)
        /\ IF r.status = 200
           THEN /\ attempts' = [a \in {x \in DOMAIN attempts :
                                          attempts[x].user_id # user_id} |->
                                   attempts[a]]
                /\ users' = Drop(users, user_id)
           ELSE UNCHANGED <<attempts, users>>
        /\ UNCHANGED <<questions, qseq, useq, aseq, now>>

----------------------------------------------------------------------------
(* Handlers in two steps.  Each storage call opens its own connection      *)
(* (get_db_connection) and commits alone, so a handler that looks an       *)
(* account up and writes later can have the calls of other requests        *)
(* between the two when requests are served side by side.  The first step  *)
(* is the handler up to the lookup that lets it go on to write, the second *)
(* the write, as the tables then are, and the answer.  A handler that ends *)
(* before its write is the one-step action above.                          *)

\* An INSERT into a users table that declares no UNIQUE constraint.
create_user_unconstrained(row) ==
    [r |-> Ok(row.id), table |-> users @@ (row.id :> row), created |-> TRUE]

\* INSERT INTO users ...: the users table's UNIQUE constraints decide.
create_user(row) ==
    IF UniqueOk(row.id, row.email, row.google_id)
    THEN [r |-> Ok(row.id), table |-> users @@ (row.id :> row),
          created |-> TRUE]
    ELSE [r |-> Throw("IntegrityError"), table |-> users, created |-> FALSE]

\* UPDATE users SET ... WHERE id = ?: no row, no change; else the UNIQUE
\* constraints decide.
update_user_row(user_id, row) ==
    IF user_id \notin DOMAIN users
    THEN [r |-> Ok(user_id), table |-> users, created |-> FALSE]
    ELSE IF UniqueOk(user_id, row.email, row.google_id)
    THEN [r |-> Ok(user_id), table |-> [users EXCEPT ![user_id] = row],
          created |-> FALSE]
    ELSE [r |-> Throw("IntegrityError"), table |-> users, created |-> FALSE]

\* The handler's last lines: get_user_by_id(user_id) and the tokens.
TokenResponseFor(written, detail) ==
    IF written.r.exc # "" THEN written.r
    ELSE IF ~(written.r.body[1] \in DOMAIN written.table
              /\ written.table[written.r.body[1]].is_active)
    THEN Raise(500, detail)
    ELSE TokenResponse(written.table[written.r.body[1]])

\* register_user up to "if existing_user" ...
RegisterUserLookup(s, user_data) ==
    LET validated == validate_user_input(SecureUserCreate(user_data))
    IN  /\ inflight[s] = NoRequest
        /\ validated.exc = ""
        /\ get_user_by_email(validated.body[1].email) = None
        /\ Suspend(s, "create_user", None, validated.body[1], None)
        /\ UNCHANGED <<questions, qseq, users, useq, attempts, aseq, now, resp>>

\* ... and from create_user on.
RegisterUserWrite(s) ==
    LET data == inflight[s].req[1]
        hashed_password ==
            IF data.password # None /\ data.password[1] # <<>>
            THEN Some(get_password_hash(data.password[1])) ELSE None
        written == create_user(NewUserRow(useq + 1, data.email, data.name,
                                          hashed_password, data.google_id))
    IN  /\ inflight[s].pc = "create_user"
        /\ useq < MaxUsers
        /\ Resume(s, "register",
                  ExceptException(TokenResponseFor(written,
                                                   "Failed to create user"),
                                  "Registration failed"))
        /\ users' = written.table
        /\ useq' = IF written.created THEN useq + 1 ELSE useq
        /\ UNCHANGED <<questions, qseq, attempts, aseq, now>>

\* google_auth up to the two lookups of create_or_get_google_user ...
GoogleAuthLookup(s, token) ==
    LET google_info == verify_google_token(token)
        by_email == get_user_by_email(google_info.body[1].email)
    IN  /\ inflight[s] = NoRequest
        /\ google_info.exc = ""
        /\ get_user_by_google_id(google_info.body[1].google_id) = None
        /\ Suspend(s, IF by_email # None THEN "update_user_google_id"
                      ELSE "create_google_user",
                   None, google_info.body[1], by_email)
        /\ UNCHANGED <<questions, qseq, users, useq, attempts, aseq, now, resp>>

\* ... and from update_user_google_id or create_user on.
GoogleAuthWrite(s) ==
    LET google_info == inflight[s].req[1]
        user_id == inflight[s].local[1].id
        written ==
            IF inflight[s].pc = "update_user_google_id"
            THEN update_user_row(user_id,
                     [users[user_id] EXCEPT
                         !.google_id = Some(google_info.google_id)])
            ELSE create_user(NewUserRow(useq + 1, google_info.email,
                                        google_info.name, None,
                                        Some(google_info.google_id)))
    IN  /\ inflight[s].pc \in {"update_user_google_id", "create_google_user"}
        /\ (inflight[s].pc = "create_google_user" => useq < MaxUsers)
        /\ Resume(s, "google",
                  ExceptHTTPExceptionRaise(
                      TokenResponseFor(written,
                                       "Failed to create or retrieve user"),
                      "Google authentication failed"))
        /\ users' = written.table
        /\ useq' = IF written.created THEN useq + 1 ELSE useq
        /\ UNCHANGED <<questions, qseq, attempts, aseq, now>>

\* admin_login up to "if not admin_user" ...
AdminLoginLookup(s, credentials) ==
    /\ inflight[s] = NoRequest
    /\ credentials.username = DEFAULT_ADMIN_USERNAME
    /\ credentials.password = DEFAULT_ADMIN_PASSWORD
    /\ get_user_by_email(AdminEmail) = None
    /\ Suspend(s, "create_admin", None, credentials, None)
    /\ UNCHANGED <<questions, qseq, users, useq, attempts, aseq, now, resp>>

\* ... and from the INSERT on.
AdminLoginWrite(s) ==
    LET written ==
            create_user([NewUserRow(useq + 1, AdminEmail, AdministratorName,
                             Some(get_password_hash(DEFAULT_ADMIN_PASSWORD)),
                             None)
                         EXCEPT !.is_admin = TRUE])
    IN  /\ inflight[s].pc = "create_admin"
        /\ useq < MaxUsers
        /\ Resume(s, "admin_login",
                  ExceptHTTPExceptionRaise(
                      TokenResponseFor(written, "Failed to create admin user"),
                      "Admin login failed"))
        /\ users' = written.table
        /\ useq' = IF written.created THEN useq + 1 ELSE useq
        /\ UNCHANGED <<questions, qseq, attempts, aseq, now>>

\* update_user up to the two SELECTs (the account exists, the email is not
\* taken) ...
UpdateUserLookup(s, credentials, user_id, user_data) ==
    /\ inflight[s] = NoRequest
    /\ update_user_result(credentials, user_id, user_data).status = 200
    /\ Suspend(s, "update_user", credentials,
               [user_id |-> user_id, data |-> user_data], None)
    /\ UNCHANGED <<questions, qseq, users, useq, attempts, aseq, now, resp>>

\* ... and from the UPDATE on.
UpdateUserWrite(s) ==
    LET user_id == inflight[s].req[1].user_id
        user_data == inflight[s].req[1].data
        row == [users[user_id] EXCEPT
                  !.email = IF user_data.email # None
                            THEN user_data.email[1] ELSE @,
                  !.hashed_password =
                      IF user_data.password # None
                      THEN Some(get_password_hash(user_data.password[1])) ELSE @,
                  !.name = IF user_data.name # None
                           THEN user_data.name[1] ELSE @]
        written == update_user_row(user_id, row)
    IN  /\ inflight[s].pc = "update_user"
        /\ Resume(s, "update_user",
                  ExceptHTTPExceptionRaise(
                      IF written.r.exc # "" THEN written.r
                      ELSE Ok([message |-> "User updated successfully"]),
                      "Failed to update user"))
        /\ users' = written.table
        /\ UNCHANGED <<questions, qseq, useq, attempts, aseq, now>>

\* submit_quiz_authenticated: its dependency get_optional_user has resolved
\* the caller's account ...
SubmitQuizAuthenticatedResolve(s, credentials, answers) ==
    LET current_user == get_optional_user(credentials)
    IN  /\ inflight[s] = NoRequest
        /\ current_user # None
        /\ Suspend(s, "submit_quiz_authenticated", credentials,
                   [answers |-> answers], current_user)
        /\ UNCHANGED <<questions, qseq, users, useq, attempts, aseq, now, resp>>

\* ... and the handler's body runs: it scores and saves under
\* current_user.id.  The schema's FOREIGN KEY on quiz_attempts.user_id is
\* not enforced (no connection sets PRAGMA foreign_keys), so the INSERT
\* succeeds whatever the users table holds.
SubmitQuizAuthenticatedRun(s) ==
    LET out == submit_quiz_authenticated_result(inflight[s].req[1].answers,
                                                inflight[s].local)
    IN  /\ inflight[s].pc = "submit_quiz_authenticated"
        /\ (out.save # None => aseq < MaxAttempts)
        /\ Resume(s, "submit_authenticated", out.r)
        /\ IF out.save # None
           THEN /\ attempts' = attempts @@ (out.save[1].id :> out.save[1])
                /\ aseq' = aseq + 1
           ELSE UNCHANGED <<attempts, aseq>>
        /\ UNCHANGED <<questions, qseq, users, useq, now>>

----------------------------------------------------------------------------
(* The environment *)

\* The client takes the response; the next request can be served.
Receive ==
    /\ resp # NoResponse
    /\ resp' = NoResponse
    /\ UNCHANGED <<questions, qseq, users, useq, attempts, aseq, now, inflight,
                   rate_limit_storage, admitted>>

\* Time passes.
Tick ==
    /\ resp = NoResponse
    /\ now < MaxTime
    /\ now' = now + 1
    /\ UNCHANGED <<questions, qseq, users, useq, attempts, aseq, resp, inflight,
                   rate_limit_storage, admitted>>

\* An operator of the database clears an account's is_active column (no
\* endpoint does; every lookup of database.py filters on it).
DeactivateUser(user_id) ==
    /\ resp = NoResponse
    /\ user_id \in DOMAIN users
    /\ users[user_id].is_active
    /\ users' = [users EXCEPT ![user_id].is_active = FALSE]
    /\ UNCHANGED <<questions, qseq, useq, attempts, aseq, now, resp, inflight,
                   rate_limit_storage, admitted>>

----------------------------------------------------------------------------
(* Specifications *)

QuestionIds == 1..(MaxQuestions + 1)
UserIds == 1..(MaxUsers + 1)

\* Every request is served when no response is in flight (Idle); the
\* disjuncts below name the endpoint and the inputs it is explored with.
Next ==
    \/ Receive
    \/ Tick
    \/ Idle /\ \E user_id \in UserIds : DeactivateUser(user_id)
    \/ Idle /\ GetQuestions
    \/ Idle /\ \E answers \in AnswerMaps : SubmitQuiz(answers)
    \/ Idle /\ \E credentials \in Credentials, answers \in AnswerMaps :
                  SubmitQuizAuthenticated(credentials, answers)
    \/ Idle /\ \E user_data \in RegisterBodies : RegisterUser(user_data)
    \/ Idle /\ \E login_data \in LoginBodies : LoginUser(login_data)
    \/ Idle /\ \E refresh_token \in SignedTokens \cup {Garbage} :
                  RefreshAccessToken(refresh_token)
    \/ Idle /\ \E credentials \in Credentials : GetCurrentUserInfo(credentials)
    \/ Idle /\ \E credentials \in Credentials : LogoutUser(credentials)
    \/ Idle /\ \E credentials \in Credentials, profile_data \in ProfileBodies :
                  UpdateUserProfile(credentials, profile_data)
    \/ Idle /\ \E token \in GoogleTokens : GoogleAuth(token)
    \/ Idle /\ \E credentials \in AdminLoginBodies : AdminLogin(credentials)
    \/ Idle /\ \E credentials \in Credentials : GetAdminStats(credentials)
    \/ Idle /\ \E credentials \in Credentials : GetAllQuestionsAdmin(credentials)
    \/ Idle /\ \E credentials \in Credentials, question_data \in QuestionBodies :
                  CreateQuestion(credentials, question_data)
    \/ Idle /\ \E credentials \in Credentials, question_id \in QuestionIds :
                  DeleteQuestion(credentials, question_id)
    \/ Idle /\ \E credentials \in Credentials, question_id \in QuestionIds,
                 question_data \in QuestionUpdates :
                  UpdateQuestion(credentials, question_id, question_data)
    \/ Idle /\ \E credentials \in Credentials, file \in PdfFiles :
                  UploadQuestionsPdf(credentials, file)
    \/ Idle /\ \E credentials \in Credentials : GetAllUsers(credentials)
    \/ Idle /\ \E credentials \in Credentials, user_id \in UserIds :
                  GetUserDetails(credentials, user_id)
    \/ Idle /\ \E credentials \in Credentials, user_id \in UserIds,
                 user_data \in UserUpdates :
                  UpdateUser(credentials, user_id, user_data)
    \/ Idle /\ \E credentials \in Credentials, user_id \in UserIds :
                  DeleteUser(credentials, user_id)

Spec == Init /\ [][Next]_vars

\* The quiz: taking it, while the admin creates and deletes questions and
\* deletes accounts.
NextQuiz ==
    \/ Receive
    \/ Idle /\ GetQuestions
    \/ Idle /\ \E answers \in AnswerMaps : SubmitQuiz(answers)
    \/ Idle /\ \E credentials \in Credentials, answers \in AnswerMaps :
                  SubmitQuizAuthenticated(credentials, answers)
    \/ Idle /\ \E credentials \in Credentials, question_data \in QuestionBodies :
                  CreateQuestion(credentials, question_data)
    \/ Idle /\ \E credentials \in Credentials, question_id \in QuestionIds :
                  DeleteQuestion(credentials, question_id)
    \/ Idle /\ \E credentials \in Credentials, user_id \in UserIds :
                  DeleteUser(credentials, user_id)

SpecQuiz == Init /\ [][NextQuiz]_vars

\* Accounts and tokens: registration, the logins, refresh, and the endpoints
\* of the authenticated tier, while time passes and accounts are deactivated.
NextAuth ==
    \/ Receive
    \/ Tick
    \/ Idle /\ \E user_id \in UserIds : DeactivateUser(user_id)
    \/ Idle /\ \E user_data \in RegisterBodies : RegisterUser(user_data)
    \/ Idle /\ \E login_data \in LoginBodies : LoginUser(login_data)
    \/ Idle /\ \E refresh_token \in SignedTokens \cup {Garbage} :
                  RefreshAccessToken(refresh_token)
    \/ Idle /\ \E credentials \in Credentials : GetCurrentUserInfo(credentials)
    \/ Idle /\ \E credentials \in Credentials : LogoutUser(credentials)
    \/ Idle /\ \E token \in GoogleTokens : GoogleAuth(token)
    \/ Idle /\ \E credentials \in AdminLoginBodies : AdminLogin(credentials)

SpecAuth == Init /\ [][NextAuth]_vars

\* The admin surface, explored with one question slot, registrations under
\* one email as the source of non-admin accounts, and submissions of the
\* empty answer map as the source of attempts.
MaxAdminQuestions == 1
AdminQuestionIds == 1..(MaxAdminQuestions + 1)
AdminRegisterBodies ==
    {b \in RegisterBodies :
        b.email = UserEmail /\ b.google_id = None /\ b.password # None}
AdminAnswerMaps == {f \in AnswerMaps : DOMAIN f = {}}
AdminQuestionBodies ==
    {b \in QuestionBodies : Len(b.question_text) >= MinQuestionLen}
AdminQuestionUpdates ==
    {d \in QuestionUpdates : d.options = None \/ d.correct_option = None}
AdminPdfFiles ==
    {f \in PdfFiles : \A i \in DOMAIN f : f[i].n_options = PdfOptionsWanted}
AdminUserUpdates == {d \in UserUpdates : d.password = None}

NextAdmin ==
    \/ Receive
    \/ Idle /\ \E user_id \in UserIds : DeactivateUser(user_id)
    \/ Idle /\ \E user_data \in AdminRegisterBodies : RegisterUser(user_data)
    \/ Idle /\ \E credentials \in Credentials, answers \in AdminAnswerMaps :
                  SubmitQuizAuthenticated(credentials, answers)
    \/ Idle /\ \E credentials \in Credentials : GetAdminStats(credentials)
    \/ Idle /\ \E credentials \in Credentials : GetAllQuestionsAdmin(credentials)
    \/ Idle /\ \E credentials \in Credentials,
                 question_data \in AdminQuestionBodies :
                  /\ CreateQuestion(credentials, question_data)
                  /\ qseq' <= MaxAdminQuestions
    \/ Idle /\ \E credentials \in Credentials, question_id \in AdminQuestionIds :
                  DeleteQuestion(credentials, question_id)
    \/ Idle /\ \E credentials \in Credentials, question_id \in AdminQuestionIds,
                 question_data \in AdminQuestionUpdates :
                  UpdateQuestion(credentials, question_id, question_data)
    \/ Idle /\ \E credentials \in Credentials, file \in AdminPdfFiles :
                  /\ UploadQuestionsPdf(credentials, file)
                  /\ qseq' <= MaxAdminQuestions
    \/ Idle /\ \E credentials \in Credentials : GetAllUsers(credentials)
    \/ Idle /\ \E credentials \in Credentials, user_id \in UserIds :
                  GetUserDetails(credentials, user_id)
    \/ Idle /\ \E credentials \in Credentials, user_id \in UserIds,
                 user_data \in AdminUserUpdates :
                  UpdateUser(credentials, user_id, user_data)
    \/ Idle /\ \E credentials \in Credentials, user_id \in UserIds :
                  DeleteUser(credentials, user_id)

SpecAdmin == Init /\ [][NextAdmin]_vars

\* The question catalogue: the admin creates, updates, deletes and imports
\* questions (two ids at most) while the quiz is read and taken.
MaxCatalogueQuestions == 2
CatalogueQuestionIds == 1..(MaxCatalogueQuestions + 1)
CatalogueAnswerMaps ==
    {f \in AnswerMaps : DOMAIN f \cap (1..MaxQuestions) \subseteq
                            1..MaxCatalogueQuestions}

NextCatalogue ==
    \/ Receive
    \/ Idle /\ GetQuestions
    \/ Idle /\ \E answers \in CatalogueAnswerMaps : SubmitQuiz(answers)
    \/ Idle /\ \E credentials \in Credentials,
                 question_data \in AdminQuestionBodies :
                  /\ CreateQuestion(credentials, question_data)
                  /\ qseq' <= MaxCatalogueQuestions
    \/ Idle /\ \E credentials \in Credentials,
                 question_id \in CatalogueQuestionIds,
                 question_data \in QuestionUpdates :
                  UpdateQuestion(credentials, question_id, question_data)
    \/ Idle /\ \E credentials \in Credentials,
                 question_id \in CatalogueQuestionIds :
                  DeleteQuestion(credentials, question_id)
    \/ Idle /\ \E credentials \in Credentials, file \in PdfFiles :
                  /\ UploadQuestionsPdf(credentials, file)
                  /\ qseq' <= MaxCatalogueQuestions

SpecCatalogue == Init /\ [][NextCatalogue]_vars

\* Accounts written by requests served side by side: register, OAuth login,
\* admin login and admin update-user run in two steps, with the steps of
\* the other requests and the deactivation of accounts between them.
ConcurrentRegisterBodies ==
    {b \in RegisterBodies :
        /\ b.email = UserEmail
        /\ b.password = Some(UserPassword)
        /\ SecureUserCreate(b) # None}
ConcurrentGoogleTokens ==
    {t \in GoodGoogleTokens : t.email \in {UserEmail, DefaultAdminEmail}}
ConcurrentUserUpdates == {d \in AdminUserUpdates : d.email # None}

NextAccounts ==
    \/ Receive
    \/ Idle /\ \E user_id \in UserIds : DeactivateUser(user_id)
    \/ Idle /\ \E s \in Slots, user_data \in ConcurrentRegisterBodies :
                  RegisterUserLookup(s, user_data)
    \/ Idle /\ \E s \in Slots : RegisterUserWrite(s)
    \/ Idle /\ \E s \in Slots, token \in ConcurrentGoogleTokens :
                  GoogleAuthLookup(s, token)
    \/ Idle /\ \E s \in Slots : GoogleAuthWrite(s)
    \/ Idle /\ \E s \in Slots, credentials \in AdminLoginBodies :
                  AdminLoginLookup(s, credentials)
    \/ Idle /\ \E s \in Slots : AdminLoginWrite(s)
    \/ Idle /\ \E s \in Slots, credentials \in Credentials,
                 user_id \in UserIds, user_data \in ConcurrentUserUpdates :
                  UpdateUserLookup(s, credentials, user_id, user_data)
    \/ Idle /\ \E s \in Slots : UpdateUserWrite(s)

SpecAccounts == Init /\ [][NextAccounts]_vars

\* Submissions of registered callers in two steps (the caller resolved, the
\* handler's body) while the admin deletes accounts.
NextCascade ==
    \/ Receive
    \/ Idle /\ \E user_data \in ConcurrentRegisterBodies : RegisterUser(user_data)
    \/ Idle /\ \E credentials \in Credentials,
                 question_data \in AdminQuestionBodies :
                  /\ CreateQuestion(credentials, question_data)
                  /\ qseq' <= MaxAdminQuestions
    \/ Idle /\ \E s \in Slots, credentials \in Credentials,
                 answers \in AdminAnswerMaps :
                  SubmitQuizAuthenticatedResolve(s, credentials, answers)
    \/ Idle /\ \E s \in Slots : SubmitQuizAuthenticatedRun(s)
    \/ Idle /\ \E credentials \in Credentials, user_id \in UserIds :
                  DeleteUser(credentials, user_id)

SpecCascade == Init /\ [][NextCascade]_vars

\* Sessions: tokens are issued (register, login, refresh), presented
\* (me, logout, profile update, an admin endpoint) and age, while the admin
\* deletes accounts.
SessionProfileBodies == {b \in ProfileBodies : b.email = None /\ b.phone = None}

NextSession ==
    \/ Receive
    \/ Tick
    \/ Idle /\ \E user_data \in AdminRegisterBodies : RegisterUser(user_data)
    \/ Idle /\ \E login_data \in LoginBodies : LoginUser(login_data)
    \/ Idle /\ \E refresh_token \in SignedTokens \cup {Garbage} :
                  RefreshAccessToken(refresh_token)
    \/ Idle /\ \E credentials \in Credentials : GetCurrentUserInfo(credentials)
    \/ Idle /\ \E credentials \in Credentials : LogoutUser(credentials)
    \/ Idle /\ \E credentials \in Credentials,
                 profile_data \in SessionProfileBodies :
                  UpdateUserProfile(credentials, profile_data)
    \/ Idle /\ \E credentials \in Credentials : GetAdminStats(credentials)
    \/ Idle /\ \E credentials \in Credentials, user_id \in UserIds :
                  DeleteUser(credentials, user_id)

SpecSession == Init /\ [][NextSession]_vars

\* Privileges and profiles: every operation that creates or changes an
\* account row.
NextPrivilege ==
    \/ Receive
    \/ Idle /\ \E user_data \in ConcurrentRegisterBodies : RegisterUser(user_data)
    \/ Idle /\ \E login_data \in LoginBodies : LoginUser(login_data)
    \/ Idle /\ \E refresh_token \in SignedTokens \cup {Garbage} :
                  RefreshAccessToken(refresh_token)
    \/ Idle /\ \E token \in ConcurrentGoogleTokens : GoogleAuth(token)
    \/ Idle /\ \E credentials \in AdminLoginBodies : AdminLogin(credentials)
    \/ Idle /\ \E credentials \in Credentials, profile_data \in ProfileBodies :
                  UpdateUserProfile(credentials, profile_data)
    \/ Idle /\ \E credentials \in Credentials, user_id \in UserIds,
                 user_data \in AdminUserUpdates :
                  UpdateUser(credentials, user_id, user_data)

SpecPrivilege == Init /\ [][NextPrivilege]_vars

\* The limiter, one request at a time: a client that can fill its window at
\* the instants on both sides of the window's end, and another client.
MaxOtherRequests == 1
WindowInstants == {0, 59, 60}

NextRateLimit ==
    \/ Receive
    \/ Idle /\ \E current_time \in WindowInstants : Sleep(current_time)
    \/ Idle /\ security_middleware("a")
    \/ Idle /\ Len(admitted["b"]) < MaxOtherRequests /\ security_middleware("b")

SpecRateLimit == Init /\ [][NextRateLimit]_vars

\* The limiter with requests of one client in flight together.
ConcurrentInstants == {0, 60}

NextRateLimitConcurrent ==
    \/ Receive
    \/ Idle /\ \E current_time \in ConcurrentInstants : Sleep(current_time)
    \/ Idle /\ \E s \in Slots : Arrive(s, "a")
    \/ Idle /\ \E s \in Slots : RateLimitCheck(s)
    \/ Idle /\ \E s \in Slots : CallNext(s)

SpecRateLimitConcurrent == Init /\ [][NextRateLimitConcurrent]_vars

----------------------------------------------------------------------------
(* Properties.  A response stays in flight, with the tables as the handler *)
(* left them, until the client receives it, so a state predicate over resp *)
(* and the tables speaks of the handler's result; what a handler changes   *)
(* is stated over its step.                                                *)

Abs(x) == IF x < 0 THEN -x ELSE x

\* p (in hundredths) is num / den rounded to the nearest hundredth, a tie
\* going to the even one.
IsRound2(p, num, den) ==
    /\ 2 * Abs(den * p - 100 * num) <= den
    /\ (2 * Abs(den * p - 100 * num) = den => p % 2 = 0)

\* The stored questions whose correct_option the answer map gives.
CorrectlyAnswered(answers) ==
    {q \in DOMAIN questions :
        q \in DOMAIN answers /\ answers[q] = questions[q].correct_option}

SubmitOps == {"submit", "submit_authenticated"}
AuthenticatedOps == {"me", "logout"}
TokenOps == {"register", "login", "google", "refresh", "admin_login"}
AdminOps ==
    {"admin_stats", "admin_questions", "create_question", "delete_question",
     "update_question", "upload_pdf", "admin_users", "admin_user_details",
     "update_user", "delete_user"}

\* A bearer credential that is a signed, unexpired token of type access.
ValidAccessToken(credentials) ==
    /\ credentials # None
    /\ credentials[1].sig = "ok"
    /\ credentials[1].typ = "access"
    /\ now < credentials[1].exp

\* The stored account a bearer credential stands for, None when it is no
\* valid access token or its subject is not stored.
Caller(credentials) ==
    IF ValidAccessToken(credentials) /\ credentials[1].sub \in DOMAIN users
    THEN Some(users[credentials[1].sub])
    ELSE None

ActiveAdmin(credentials) ==
    /\ Caller(credentials) # None
    /\ Caller(credentials)[1].is_active
    /\ Caller(credentials)[1].is_admin

\* C1: with N >= 1 stored questions, /api/submit and
\* /api/submit-authenticated answer every answer map with total_questions = N,
\* score = the number of questions whose submitted option equals the stored
\* correct_option (so 0 <= score <= N) and percentage = round(100*score/N, 2).
C1_ScoreTotalPercentage ==
    (resp.op \in SubmitOps /\ DOMAIN questions # {}) =>
        LET N == Cardinality(DOMAIN questions)
            S == Cardinality(CorrectlyAnswered(resp.req.answers))
        IN  /\ resp.status = 200
            /\ resp.body[1].total_questions = N
            /\ resp.body[1].score = S
            /\ 0 <= resp.body[1].score
            /\ resp.body[1].score <= N
            /\ IsRound2(resp.body[1].percentage, 100 * S, N)

\* Two of three questions answered correctly: 66.67.
C1_TwoOfThree ==
    /\ resp.op = "submit"
    /\ resp.status = 200
    /\ resp.body[1].total_questions = 3
    /\ resp.body[1].score = 2
    /\ resp.body[1].percentage = 6667

\* C2: with no stored question (N = 0) a submission completes without a
\* fault and yields score = 0, total_questions = 0 and percentage = 0.0; it
\* is never reported as an error.
C2_EmptySetScoresZero ==
    (resp.op \in SubmitOps /\ DOMAIN questions = {}) =>
        /\ resp.status = 200
        /\ resp.body[1].score = 0
        /\ resp.body[1].total_questions = 0
        /\ resp.body[1].percentage = 0

\* C3: a request to an endpoint of the authenticated tier with a valid
\* access token whose subject is a stored account with the active flag
\* false fails with 400 'Inactive user', not with the 401 of a missing,
\* invalid or expired token.
C3_InactiveAccountIs400 ==
    (/\ resp.op \in AuthenticatedOps
     /\ Caller(resp.cred) # None
     /\ ~Caller(resp.cred)[1].is_active) =>
        /\ resp.status = 400
        /\ resp.detail = "Inactive user"

\* C4: a token is accepted only for the purpose its type names: a refresh
\* token as bearer credential never resolves to an identity, an access
\* token given to /api/auth/refresh never yields a token pair, and the
\* access token issued for an account does resolve to that account (the
\* refresh token issued with it does not).
C4_TokenTypeDiscriminates ==
    /\ (resp.op \in AuthenticatedOps /\ resp.cred # None
        /\ resp.cred[1].typ = "refresh") =>
           (resp.status = 401 /\ resp.body = None)
    /\ (resp.op = "refresh" /\ resp.req.refresh_token.typ = "access") =>
           (resp.status = 401 /\ resp.body = None)
    /\ (resp.op \in TokenOps /\ resp.status = 200) =>
           /\ resp.body[1].access_token.typ = "access"
           /\ resp.body[1].refresh_token.typ = "refresh"
           /\ get_current_user(Some(resp.body[1].access_token))
                  = Some(resp.body[1].user)
           /\ get_current_user(Some(resp.body[1].refresh_token)) = None

\* An unexpired access token of an active account is refused by refresh.
C4_AccessTokenRefusedByRefresh ==
    /\ resp.op = "refresh"
    /\ resp.req.refresh_token.typ = "access"
    /\ resp.req.refresh_token.sig = "ok"
    /\ now < resp.req.refresh_token.exp
    /\ get_user_by_id(resp.req.refresh_token.sub) # None
    /\ resp.status = 401

\* C5: an /api/admin/* endpoint other than /api/admin/login takes effect
\* only for a caller that is an active account with the admin flag: an
\* active non-admin caller gets 403, a caller with no valid identity gets
\* 401, and in both cases nothing is read out (no body) and no question,
\* account or attempt changes.
C5_AdminOnly ==
    [][(Idle /\ resp'.op \in AdminOps /\ ~ActiveAdmin(resp'.cred)) =>
           LET caller == Caller(resp'.cred)
           IN  /\ resp'.body = None
               /\ questions' = questions
               /\ users' = users
               /\ attempts' = attempts
               /\ resp'.status \in {401, 403}
               /\ (caller = None => resp'.status = 401)
               /\ (caller # None /\ caller[1].is_active => resp'.status = 403)
      ]_vars

\* A non-admin account is refused the deletion of a stored question.
C5_NonAdminDeleteRefused ==
    /\ resp.op = "delete_question"
    /\ resp.status = 403
    /\ resp.req.question_id \in DOMAIN questions
    /\ Caller(resp.cred) # None
    /\ ~Caller(resp.cred)[1].is_admin

\* C6: on /api/submit-authenticated a missing token, or one that is
\* malformed, expired, of the wrong type or whose subject is not a stored
\* account, is no identity and never an error: the submission is answered
\* exactly as /api/submit answers it, and no attempt is stored.
C6_BadTokenIsAnonymous ==
    [][(Idle /\ resp'.op = "submit_authenticated" /\ Caller(resp'.cred) = None) =>
           LET anonymous == submit_quiz_result(resp'.req.answers)
           IN  /\ resp'.status = anonymous.status
               /\ resp'.detail = anonymous.detail
               /\ resp'.status \notin {400, 401, 403}
               /\ (anonymous.body = None) = (resp'.body = None)
               /\ (anonymous.body # None =>
                      /\ resp'.body[1].score = anonymous.body[1].score
                      /\ resp'.body[1].total_questions =
                             anonymous.body[1].total_questions
                      /\ resp'.body[1].percentage = anonymous.body[1].percentage
                      /\ resp'.body[1].results = anonymous.body[1].results
                      /\ resp'.body[1].attempt_id = None
                      /\ resp'.body[1].user_id = None)
               /\ attempts' = attempts
               /\ aseq' = aseq
      ]_vars

\* A submission carrying an unexpired refresh token of a stored account is
\* scored, with no identity attached and no attempt stored.
C6_RefreshTokenScoredAnonymously ==
    /\ resp.op = "submit_authenticated"
    /\ resp.cred # None
    /\ resp.cred[1].typ = "refresh"
    /\ resp.cred[1].sig = "ok"
    /\ now < resp.cred[1].exp
    /\ resp.cred[1].sub \in DOMAIN users
    /\ resp.status = 200
    /\ resp.body[1].score >= 1
    /\ resp.body[1].user_id = None
    /\ DOMAIN attempts = {}

\* The provider's answer passes every check of the OAuth bridge.
VerifiedByProvider(token) ==
    /\ token.reachable
    /\ token.status_ok
    /\ token.json_ok
    /\ token.aud = GOOGLE_CLIENT_ID
    /\ token.exp >= now
    /\ token.email_verified

\* C7: create_or_get_account resolves a verified OAuth identity in three
\* steps: (1) an account that has the external id is returned; (2) else an
\* account that has the email gets the external id and is returned, and no
\* account is created; (3) else a new account without password hash is
\* created.  The accounts grow only in case (3).
C7_ThreeStepResolution ==
    [][(Idle /\ resp'.op = "google" /\ VerifiedByProvider(resp'.req)) =>
           LET token == resp'.req
               with_id == {u \in DOMAIN users :
                              users[u].google_id = Some(token.sub)}
               with_email == {u \in DOMAIN users : users[u].email = token.email}
               returned == resp'.body[1].user.id
           IN  /\ resp'.status = 200
               /\ IF with_id # {}
                  THEN /\ returned \in with_id
                       /\ users' = users
                  ELSE IF with_email # {}
                  THEN /\ returned \in with_email
                       /\ DOMAIN users' = DOMAIN users
                       /\ users'[returned].google_id = Some(token.sub)
                       /\ \A u \in DOMAIN users \ {returned} : users'[u] = users[u]
                  ELSE /\ returned \notin DOMAIN users
                       /\ DOMAIN users' = DOMAIN users \cup {returned}
                       /\ users'[returned].hashed_password = None
                       /\ users'[returned].google_id = Some(token.sub)
                       /\ users'[returned].email = token.email
                       /\ \A u \in DOMAIN users : users'[u] = users[u]
      ]_vars

\* C8: each cause of a failed OAuth exchange reaches the caller as its own
\* error, the first failing check deciding: provider unreachable gives a
\* 502-class error, a foreign audience InvalidAudience, a past expiry
\* ExpiredToken, an unverified email EmailNotVerified; none is reported as
\* a generic internal failure.
C8_EachFailureItsOwnError ==
    (resp.op = "google" /\ ~VerifiedByProvider(resp.req)) =>
        LET token == resp.req
        IN  /\ resp.status # 500
            /\ resp.detail # "Google authentication failed"
            /\ IF ~token.reachable THEN resp.status \in 502..504
               ELSE IF ~token.status_ok \/ ~token.json_ok
               THEN resp.status = 401 /\ resp.detail = "Invalid Google token"
               ELSE IF token.aud # GOOGLE_CLIENT_ID
               THEN resp.status \in 400..499 /\ resp.detail = "Invalid audience"
               ELSE IF token.exp < now
               THEN resp.status \in 400..499 /\ resp.detail = "Token expired"
               ELSE /\ resp.status \in 400..499
                    /\ resp.detail = "Google email not verified"

\* C9: registering (with well-formed input) an email that a stored account
\* already has is rejected with a conflict error of class 400/409, issues
\* no tokens and leaves the accounts unchanged.
C9_DuplicateEmailIsConflict ==
    [][(/\ Idle
        /\ resp'.op = "register"
        /\ SecureUserCreate(resp'.req) # None
        /\ \E u \in DOMAIN users : users[u].email = resp'.req.email) =>
           /\ resp'.status \in {400, 409}
           /\ resp'.body = None
           /\ users' = users
           /\ useq' = useq
      ]_vars

\* Input the validation rejects: on register a password shorter than 6 or
\* longer than 72 characters, an empty or over-long name; on create-question
\* fewer than 2 or more than 6 options, a correct_option outside the options.
InvalidRegistration(data) ==
    \/ data.password # None /\ Len(data.password[1]) < MinPasswordLen
    \/ data.password # None /\ Len(data.password[1]) > MaxPasswordLen
    \/ Len(data.name) = 0
    \/ Len(data.name) > MaxNameLen

InvalidQuestion(data) ==
    \/ Len(data.options) < MinOptions
    \/ Len(data.options) > MaxOptions
    \/ data.correct_option < 0
    \/ data.correct_option >= Len(data.options)

\* C10: input that fails validation, on register and on the admin's
\* create-question, is answered with a 4xx validation error and changes no
\* stored account or question.
C10_InvalidInputIs4xx ==
    [][(\/ Idle /\ resp'.op = "register" /\ InvalidRegistration(resp'.req)
        \/ /\ Idle
           /\ resp'.op = "create_question"
           /\ ActiveAdmin(resp'.cred)
           /\ InvalidQuestion(resp'.req)) =>
           /\ resp'.status \in 400..499
           /\ users' = users
           /\ questions' = questions
      ]_vars

\* The attempt a response of /api/submit-authenticated reports to have
\* stored, None when it reports none or the attempt is no longer stored.
CreatedAttempt ==
    IF /\ resp.op = "submit_authenticated"
       /\ resp.status = 200
       /\ resp.body[1].attempt_id # None
       /\ resp.body[1].attempt_id[1] \in DOMAIN attempts
    THEN Some(attempts[resp.body[1].attempt_id[1]])
    ELSE None

\* C11: every stored attempt's percentage is score/total*100 of its own
\* score and total rounded to 2 decimals (a whole number of hundredths), and
\* it equals the percentage of the response to the submission that stored it.
C11_StoredPercentageIsRounded ==
    /\ \A a \in DOMAIN attempts :
           LET p == attempts[a].percentage
           IN  /\ (100 * p.num) % p.den = 0
               /\ IsRound2((100 * p.num) \div p.den,
                           100 * attempts[a].score, attempts[a].total_questions)
    /\ CreatedAttempt # None =>
           LET p == CreatedAttempt[1].percentage
           IN  100 * p.num = resp.body[1].percentage * p.den

\* The bearer credential resolves to an identity: a valid access token of a
\* stored, active account.
Resolved(credentials) ==
    /\ Caller(credentials) # None
    /\ Caller(credentials)[1].is_active

\* C12: a scored submission to /api/submit-authenticated whose credential
\* resolves to an account stores exactly one new attempt, with that account
\* and the score and total of the response, and returns its id; an anonymous
\* submission there, a failed one, and every submission to /api/submit leave
\* the attempts as they were; no stored attempt lacks an account.
C12_OneAttemptIffIdentity ==
    [][(Idle /\ resp'.op \in SubmitOps) =>
          IF /\ resp'.op = "submit_authenticated"
             /\ resp'.status = 200
             /\ Resolved(resp'.cred)
          THEN /\ resp'.body[1].attempt_id # None
               /\ resp'.body[1].user_id = Some(resp'.cred[1].sub)
               /\ LET attempt_id == resp'.body[1].attempt_id[1]
                  IN  /\ attempt_id \notin DOMAIN attempts
                      /\ DOMAIN attempts' = DOMAIN attempts \cup {attempt_id}
                      /\ \A a \in DOMAIN attempts : attempts'[a] = attempts[a]
                      /\ attempts'[attempt_id].user_id = resp'.cred[1].sub
                      /\ attempts'[attempt_id].user_id \in DOMAIN users
                      /\ attempts'[attempt_id].score = resp'.body[1].score
                      /\ attempts'[attempt_id].total_questions =
                             resp'.body[1].total_questions
          ELSE /\ attempts' = attempts
               /\ resp'.status = 200 =>
                      (resp'.op = "submit_authenticated" =>
                          /\ resp'.body[1].attempt_id = None
                          /\ resp'.body[1].user_id = None)
      ]_vars

\* An identified submission was scored and its attempt is stored.
C12_IdentifiedSubmissionStored ==
    /\ CreatedAttempt # None
    /\ Resolved(resp.cred)
    /\ CreatedAttempt[1].user_id = resp.cred[1].sub
    /\ CreatedAttempt[1].score = 1
    /\ CreatedAttempt[1].total_questions = 2

\* A scored response of one of the two submission endpoints.
Scored == resp.op \in SubmitOps /\ resp.status = 200

\* The result entries of a scored response that are about question q.
EntriesOf(q) ==
    {i \in 1..Len(resp.body[1].results) : resp.body[1].results[i].id = q}

\* C14: the results of a submission hold exactly one entry per stored
\* question, in ascending order of question id, for every answer map; with
\* at least one stored question every submission is scored.
C14_OneResultPerQuestionAscending ==
    (resp.op \in SubmitOps /\ DOMAIN questions # {}) =>
        /\ resp.status = 200
        /\ LET results == resp.body[1].results
           IN  /\ Len(results) = Cardinality(DOMAIN questions)
               /\ \A q \in DOMAIN questions : Cardinality(EntriesOf(q)) = 1
               /\ \A i \in 1..Len(results) : results[i].id \in DOMAIN questions
               /\ \A i, j \in 1..Len(results) :
                      i < j => results[i].id < results[j].id

\* Questions 1 and 3 are stored (2 was deleted); the answer map names 3, an
\* id never stored and nothing else, and the results are those of 1 then 3.
C14_ResultsFollowStoredIds ==
    /\ Scored
    /\ DOMAIN questions = {1, 3}
    /\ DOMAIN resp.req.answers = {3, UnknownQuestionId}
    /\ Len(resp.body[1].results) = 2
    /\ resp.body[1].results[1].id = 1
    /\ resp.body[1].results[2].id = 3

\* C15: every stored question the answer map has no entry for has a result
\* with user_answer = null and is_correct = false, and counts in
\* total_questions.
C15_MissingAnswerIsIncorrect ==
    Scored =>
        /\ resp.body[1].total_questions = Cardinality(DOMAIN questions)
        /\ \A q \in DOMAIN questions \ DOMAIN resp.req.answers :
               /\ EntriesOf(q) # {}
               /\ \A i \in EntriesOf(q) :
                      /\ resp.body[1].results[i].user_answer = None
                      /\ resp.body[1].results[i].is_correct = FALSE

\* Two questions stored, only the second answered (correctly): total 2,
\* score 1.
C15_OneOfTwoUnanswered ==
    /\ Scored
    /\ DOMAIN questions = {1, 2}
    /\ DOMAIN resp.req.answers = {2}
    /\ questions[1].correct_option = 0
    /\ resp.body[1].total_questions = 2
    /\ resp.body[1].score = 1

\* The option index is outside the options of stored question q.
OutOfRange(q, option) == option < 0 \/ option >= Len(questions[q].options)

\* C16: a submitted option index outside a stored question's options
\* (negative, or >= their number) gives that question is_correct = false,
\* and the submission completes without an error.
C16_OutOfRangeIsIncorrect ==
    (resp.op \in SubmitOps /\ DOMAIN questions # {}) =>
        /\ resp.status = 200
        /\ \A q \in DOMAIN questions \cap DOMAIN resp.req.answers :
               OutOfRange(q, resp.req.answers[q]) =>
                   /\ EntriesOf(q) # {}
                   /\ \A i \in EntriesOf(q) :
                          /\ resp.body[1].results[i].is_correct = FALSE
                          /\ resp.body[1].results[i].user_answer =
                                 Some(resp.req.answers[q])

\* A negative index and one past the last option, both scored incorrect.
C16_NegativeAndTooLarge ==
    /\ Scored
    /\ DOMAIN questions = {1, 2}
    /\ DOMAIN resp.req.answers = {1, 2}
    /\ resp.req.answers[1] = -1
    /\ resp.req.answers[2] = Len(questions[2].options)
    /\ resp.body[1].score = 0

\* The answer map without its entries for ids that are not stored.
KnownAnswers(answers) ==
    [q \in DOMAIN answers \cap DOMAIN questions |-> answers[q]]

\* C17: an entry of the answer map whose key is no stored question's id
\* produces no result entry, changes neither score nor total_questions and
\* causes no error: the response is that of the map without the entry.
C17_UnknownIdIgnored ==
    (/\ resp.op \in SubmitOps
     /\ DOMAIN questions # {}
     /\ DOMAIN resp.req.answers \ DOMAIN questions # {}) =>
        LET without == submit_quiz_result(KnownAnswers(resp.req.answers))
        IN  /\ resp.status = 200
            /\ without.status = 200
            /\ \A k \in DOMAIN resp.req.answers \ DOMAIN questions :
                   EntriesOf(k) = {}
            /\ resp.body[1].total_questions = Cardinality(DOMAIN questions)
            /\ resp.body[1].score =
                   Cardinality(CorrectlyAnswered(resp.req.answers))
            /\ resp.body[1].results = without.body[1].results
            /\ resp.body[1].score = without.body[1].score
            /\ resp.body[1].total_questions = without.body[1].total_questions
            /\ resp.body[1].percentage = without.body[1].percentage

\* One stored question answered correctly next to an entry for an id that
\* is not stored: 1 of 1.
C17_UnknownEntryBesideCorrectOne ==
    /\ Scored
    /\ DOMAIN questions = {1}
    /\ DOMAIN resp.req.answers = {1, UnknownQuestionId}
    /\ resp.body[1].score = 1
    /\ resp.body[1].total_questions = 1
    /\ resp.body[1].percentage = 10000

\* The question table with its answer key replaced.
Rekeyed(key) == [q \in DOMAIN questions |->
                   [questions[q] EXCEPT !.correct_option = key[q]]]

\* C18: GET /api/questions answers 200 with one entry per stored question
\* holding id, question_text and options only; the response is the same for
\* every store that differs from this one in correct_option values only; and
\* with no stored question it is the empty list.
C18_QuestionsHideAnswerKey ==
    resp.op = "get_questions" =>
        /\ resp.status = 200
        /\ LET list == resp.body[1].questions
           IN  /\ Len(list) = Cardinality(DOMAIN questions)
               /\ DOMAIN questions = {} => list = <<>>
               /\ \A i \in 1..Len(list) :
                      /\ DOMAIN list[i] = {"id", "question_text", "options"}
                      /\ list[i].id \in DOMAIN questions
                      /\ list[i].question_text =
                             questions[list[i].id].question_text
                      /\ list[i].options = questions[list[i].id].options
               /\ \A key \in [DOMAIN questions -> AnswerOptions] :
                      QuestionList(SelectFrom(Rekeyed(key))) = list

\* Two stored questions with different correct options are listed.
C18_TwoQuestionsListed ==
    /\ resp.op = "get_questions"
    /\ resp.status = 200
    /\ DOMAIN questions = {1, 2}
    /\ questions[1].correct_option # questions[2].correct_option
    /\ Len(resp.body[1].questions) = 2

\* C19: every stored question has at least 2 options and a correct_option
\* that is a 0-based index into its own options, whatever the admin created,
\* updated, deleted or imported.
C19_StoredQuestionsWellFormed ==
    \A q \in DOMAIN questions :
        /\ Len(questions[q].options) >= MinOptions
        /\ questions[q].correct_option >= 0
        /\ questions[q].correct_option < Len(questions[q].options)

C20_EmailAndGoogleIdUnique ==
    \A u, v \in DOMAIN users :
        u # v =>
            /\ users[u].email # users[v].email
            /\ (users[u].google_id # None =>
                    users[u].google_id # users[v].google_id)

\* Two registrations of one email were served side by side: both found the
\* email free, the first inserted its account, and the INSERT of the second
\* was refused, so the email is stored once.
C20_SecondRegistrationRefused ==
    /\ resp.op = "register"
    /\ resp.status = 500
    /\ get_user_by_email(resp.req.email) # None
    /\ Cardinality({u \in DOMAIN users : users[u].email = resp.req.email}) = 1

\* The first stage of the access gate that a bearer credential fails, in the
\* order signature/expiry, type, account lookup, active, admin; "pass" when
\* it fails none.
FailingStage(credentials) ==
    LET token == credentials[1]
    IN  IF token.sig # "ok" \/ now >= token.exp THEN "signature_expiry"
        ELSE IF token.typ # "access" THEN "type"
        ELSE IF token.sub \notin DOMAIN users THEN "lookup"
        ELSE IF ~users[token.sub].is_active THEN "active"
        ELSE IF ~users[token.sub].is_admin THEN "admin"
        ELSE "pass"

\* C21: a request to an admin endpoint that fails a stage of the gate is
\* refused by the gate, and its error (status and detail) differs from the
\* error the gate gives, in the same state, to any credential that fails at
\* a different stage.
C21_StagesHaveOwnErrors ==
    (/\ resp.op \in AdminOps
     /\ resp.cred # None
     /\ FailingStage(resp.cred) # "pass") =>
        /\ resp.status \in {400, 401, 403}
        /\ \A credentials \in Credentials \ {None} :
               FailingStage(credentials) \notin {"pass", FailingStage(resp.cred)}
                   => <<get_current_admin_user(credentials).status,
                        get_current_admin_user(credentials).detail>>
                      # <<resp.status, resp.detail>>

\* The token validates as a token of its own type.
Validates(token) == verify_token(token, token.typ).ok

\* The service accepts the token: an access token at the authenticated
\* tier, a refresh token at /api/auth/refresh.
Accepted(token) ==
    IF token.typ = "access"
    THEN get_current_active_user(Some(token)).status = 200
    ELSE refresh_access_token_result(token).status = 200

\* C22: over every step, a token that validates and has not reached its
\* expiry still validates after the step, and, unless the step deleted an
\* account, is still accepted if it was (logout, refresh, login and profile
\* update revoke nothing); a token that has reached its expiry does not
\* validate after the step or ever again, the clock never going back.
C22_TokensOnlyExpire ==
    [][/\ now' >= now
       /\ \A token \in SignedTokens :
              /\ (Validates(token) /\ now' < token.exp) =>
                     /\ Validates(token)'
                     /\ (Accepted(token) /\ resp'.op # "delete_user")
                            => Accepted(token)'
              /\ now >= token.exp =>
                     /\ ~Validates(token)'
                     /\ ~Accepted(token)'
      ]_vars

\* A logout was served and the access token it was called with is still
\* valid and accepted.
C22_TokenSurvivesLogout ==
    /\ resp.op = "logout"
    /\ resp.status = 200
    /\ Validates(resp.cred[1])
    /\ Accepted(resp.cred[1])

----------------------------------------------------------------------------
(* The rate limiter *)

Times(requests) == {requests[i] : i \in DOMAIN requests}

Count(requests, t) == Cardinality({i \in DOMAIN requests : requests[i] = t})

\* How many of the requests fall in the window that starts at start.
InWindow(requests, start) ==
    Cardinality({i \in DOMAIN requests :
                    start <= requests[i] /\ requests[i] < start + rate_limit_window})

\* A window that holds the most admissions can be taken to start at one.
WindowsHold(log) ==
    \A start \in Times(log) : InWindow(log, start) <= rate_limit_max_requests

\* C23: per client address at most 60 admissions fall in any 60-second
\* window; a check prunes the client's timestamps as old as the window,
\* answers 429 without recording and without the handler when 60 remain,
\* otherwise records the current time and admits; other clients' lists and
\* admissions are left as they were.
C23_SixtyPerWindowPerClient ==
    [][\A client_ip \in Clients :
           /\ WindowsHold(admitted'[client_ip])
           /\ (resp = NoResponse /\ resp'.op = "security_middleware") =>
                  LET kept == SelectSeq(rate_limit_storage[client_ip],
                                        LAMBDA t : now - t < 60)
                  IN  IF resp'.req.client # client_ip
                      THEN /\ rate_limit_storage'[client_ip] = rate_limit_storage[client_ip]
                           /\ admitted'[client_ip] = admitted[client_ip]
                      ELSE IF Len(kept) >= 60
                      THEN /\ resp'.status = 429
                           /\ resp'.body = None
                           /\ rate_limit_storage'[client_ip] = kept
                           /\ admitted'[client_ip] = admitted[client_ip]
                      ELSE /\ resp'.status = 200
                           /\ rate_limit_storage'[client_ip] = Append(kept, now)
                           /\ admitted'[client_ip] = Append(admitted[client_ip], now)
      ]_vars

\* The 61st request of a window is refused while the first ones are 59
\* seconds old, and the other client has been served.
C23_SixtyFirstRefused ==
    /\ resp.op = "security_middleware"
    /\ resp.status = 429
    /\ resp.req.client = "a"
    /\ now = 59
    /\ Count(rate_limit_storage["a"], 0) > 0
    /\ admitted["b"] # <<>>

\* C24: with several requests of a client in flight, never more than 60 are
\* admitted in a window and no timestamp a check recorded is lost: every
\* admission still inside the window is in the client's list as often as it
\* was made, that of a request still inside its handler included.
C24_ConcurrentChecksKeepTheLimit ==
    \A client_ip \in Clients :
        /\ WindowsHold(admitted[client_ip])
        /\ Len(rate_limit_storage[client_ip]) <= rate_limit_max_requests
        /\ \A t \in Times(admitted[client_ip]) :
               now - t < rate_limit_window =>
                   Count(rate_limit_storage[client_ip], t) = Count(admitted[client_ip], t)
        /\ \A s \in Slots :
               (/\ inflight[s].pc = "call_next"
                /\ inflight[s].req[1].client = client_ip
                /\ now - inflight[s].local[1] < rate_limit_window) =>
                   inflight[s].local[1] \in Times(rate_limit_storage[client_ip])

\* A check is refused while an admitted request of the same client is
\* still inside its handler.
C24_RefusedBesideRequestInFlight ==
    /\ resp.op = "security_middleware"
    /\ resp.status = 429
    /\ \E s \in Slots : /\ inflight[s].pc = "call_next"
                        /\ inflight[s].req[1].client = resp.req.client

----------------------------------------------------------------------------
(* External identities and the administrator account *)

\* C25: an OAuth login never replaces an external id already stored on an
\* account: an account that has one keeps it over the login.
C25_LinkingKeepsExternalId ==
    [][(resp = NoResponse /\ resp'.op = "google") =>
           \A user_id \in DOMAIN users :
               users[user_id].google_id # None =>
                   /\ user_id \in DOMAIN users'
                   /\ users'[user_id].google_id = users[user_id].google_id
      ]_vars

\* C26: an external id comes to stand on an account only by an OAuth login
\* whose provider token passed the exchange checks, and is that token's id.
C26_ExternalIdOnlyFromProviderToken ==
    [][\A user_id \in DOMAIN users' :
           (/\ users'[user_id].google_id # None
            /\ (user_id \in DOMAIN users =>
                    users[user_id].google_id # users'[user_id].google_id)) =>
               /\ resp'.op = "google"
               /\ resp'.req \in GoodGoogleTokens
               /\ users'[user_id].google_id = Some(resp'.req.sub)
      ]_vars

\* C27: the tokens of a successful /api/admin/login have as subject an
\* account whose admin flag is true.
C27_AdminLoginYieldsAdmin ==
    (resp.op = "admin_login" /\ resp.status = 200) =>
        /\ resp.body[1].access_token.sub = resp.body[1].refresh_token.sub
        /\ resp.body[1].access_token.sub \in DOMAIN users
        /\ users[resp.body[1].access_token.sub].is_admin

----------------------------------------------------------------------------
(* Privileges and the profile *)

\* C28: no operation raises privileges: an account keeps the admin flag it
\* has over every step, and an account that a step creates has the flag
\* only when the step is the administrator bootstrap of /api/admin/login
\* (the other admin account is the one the database is initialised with);
\* registration and OAuth first login create accounts without it.
C28_AdminFlagNeverRaised ==
    [][\A user_id \in DOMAIN users' :
           IF user_id \in DOMAIN users
           THEN users'[user_id].is_admin = users[user_id].is_admin
           ELSE /\ resp'.op \in {"register", "google", "admin_login"}
                /\ users'[user_id].is_admin <=> resp'.op = "admin_login"
      ]_vars

\* An admin update-user has been served while there are an account that
\* came from an OAuth login, without the flag, and the administrator that
\* the admin login created.
C28_AccountsOfEveryOrigin ==
    /\ resp.op = "update_user"
    /\ resp.status = 200
    /\ \E user_id \in DOMAIN users : /\ users[user_id].google_id # None
                                     /\ ~users[user_id].is_admin
    /\ \E user_id \in DOMAIN users : /\ user_id # DefaultAdminRow.id
                                     /\ users[user_id].is_admin

\* C29: PUT /api/auth/profile changes the name, phone and address of the
\* calling account and nothing else: no account appears or disappears, the
\* other accounts keep every field, the caller keeps email, password hash,
\* external id, active flag and admin flag, and the allowed fields that the
\* body gives are the ones stored; a body with no non-null allowed field
\* is answered 400 (401 without a valid caller) and changes nothing.
C29_ProfileUpdateFrame ==
    [][(resp = NoResponse /\ resp'.op = "update_profile") =>
           LET body == resp'.req
               empty == body.name = None /\ body.phone = None /\ body.address = None
               caller == get_current_active_user(resp'.cred)
           IN  /\ DOMAIN users' = DOMAIN users
               /\ caller.status # 200 => resp'.status = caller.status /\ users' = users
               /\ (caller.status = 200 /\ empty) => resp'.status = 400 /\ users' = users
               /\ (caller.status = 200 /\ ~empty) =>
                      /\ resp'.status = 200
                      /\ \A user_id \in DOMAIN users :
                             IF user_id # caller.user[1].id
                             THEN users'[user_id] = users[user_id]
                             ELSE /\ [users'[user_id] EXCEPT
                                         !.name = users[user_id].name,
                                         !.phone = users[user_id].phone,
                                         !.address = users[user_id].address]
                                     = users[user_id]
                                  /\ body.name # None =>
                                         users'[user_id].name = body.name[1]
                                  /\ body.phone # None =>
                                         users'[user_id].phone = body.phone
      ]_vars

\* A profile update that also names email and is_admin has been served: the
\* phone is stored, the email and the flag are the caller's old ones.
C29_ForbiddenKeysIgnored ==
    /\ resp.op = "update_profile"
    /\ resp.status = 200
    /\ resp.req.email = Some(AdminEmail)
    /\ resp.req.is_admin = Some(TRUE)
    /\ resp.req.phone = Some(ProfilePhone)
    /\ LET row == users[resp.cred[1].sub]
       IN  /\ row.phone = Some(ProfilePhone)
           /\ row.email # AdminEmail
           /\ ~row.is_admin

----------------------------------------------------------------------------
(* Tokens of deleted accounts *)

\* Account ids are drawn once: an id below the sequence that is no longer
\* in the table is the id of a deleted account.
Deleted(user_id) == user_id \in 1..useq /\ user_id \notin DOMAIN users

\* C30: a successful delete-user removes the account, a deleted account
\* never comes back, and from then on every token with the deleted account
\* as subject is refused: 401 at the authenticated and the admin tier,
\* anonymous on optional endpoints, 401 at the refresh endpoint, and the
\* requests that are made with such a token are answered 401.
C30_TokensOfDeletedAccountRefused ==
    [][/\ (resp'.op = "delete_user" /\ resp'.status = 200) =>
              resp'.req.user_id \notin DOMAIN users'
       /\ \A token \in SignedTokens :
              Deleted(token.sub) =>
                  /\ Deleted(token.sub)'
                  /\ get_current_active_user(Some(token)).status = 401
                  /\ get_current_admin_user(Some(token)).status = 401
                  /\ get_optional_user(Some(token)) = None
                  /\ refresh_access_token_result(token).status = 401
                  /\ (resp = NoResponse /\ resp'.cred = Some(token)) =>
                         resp'.status = 401
                  /\ (resp = NoResponse /\ resp'.op = "refresh"
                      /\ resp'.req.refresh_token = token) => resp'.status = 401
      ]_vars

\* An access token that is signed, unexpired and of the right type is
\* answered 401 at /api/auth/me because its account has been deleted.
C30_ValidTokenOfDeletedAccount ==
    /\ resp.op = "me"
    /\ resp.status = 401
    /\ resp.cred # None
    /\ resp.cred[1] \in SignedTokens
    /\ verify_token(resp.cred[1], "access").ok
    /\ Deleted(resp.cred[1].sub)

====
